---- MODULE Spec2Model ----
(***************************************************************************)
(* Order execution engine of optionstrader.py (BybitOptionsTrader and the  *)
(* module-level helpers around it), as a state machine.                    *)
(*                                                                         *)
(* The exchange is an external party: every response of a REST call is     *)
(* drawn nondeterministically from a bounded set of well-formed responses  *)
(* (success with any payload, a non-zero retCode, a transport failure).    *)
(* Prices and tick sizes are whole numbers of one price quantum, times are *)
(* whole seconds (fill polling) or milliseconds (history windows).         *)
(***************************************************************************)
EXTENDS Integers, Sequences, FiniteSets, TLC

VARIABLES
    pc,          \* position of the running call
    now,         \* the clock read by time.time()
    tick_cache,  \* _tick_size_cache: symbol -> cached tick size
    uuid_n,      \* number of values drawn from uuid.uuid4() so far
    sent,        \* create-order requests POSTed to /v5/order/create, in order
    po,          \* frame of place_order
    w,           \* frame of wait_for_order_fill
    pal,         \* frame of place_and_log
    cx,          \* frame of cancel_all / cancel_all_orders
    hist,        \* frame of list_trade_history / list_delivery_history
    lats,        \* the times one exchange call can take in this run
    ex,          \* frame of the history exports and _write_trade_history_csv
    sel,         \* frame of choose_symbol_by_risk
    calc,        \* frame of a pure function: its arguments and its result
    thr,         \* the threads calling get_tick_size at the same time
    pt,          \* frame of set_profit_targets
    outcome      \* how the top-level call ended

vars == <<pc, now, tick_cache, uuid_n, sent, po, w, pal, cx, hist, lats, ex, sel, calc, thr, pt, outcome>>

----------------------------------------------------------------------------
(* Bounds of the model *)

MaxPrice == 2      \* prices range over 0..MaxPrice quanta
MaxTick == 2       \* tick sizes the exchange reports range over 0..MaxTick
MaxExecs == 2      \* records in one execution-list response
MaxTimeout == 3    \* largest timeout given to a stand-alone wait_for_order_fill
MaxPoll == 1       \* largest poll interval given to it
MaxLatency == 1    \* longest time one exchange call takes
MaxStall == 2      \* poll iterations explored during which the clock stands still
MaxCalls == 2      \* create-order requests of one session of place_order calls
MaxPositions == 2  \* positions in one position-list response
MaxPages == 2      \* cursor pages the exchange serves for one query window
PageLimit == 1     \* records on one page of an exchange that holds its records
FloatBits == 3     \* significant bits a float keeps (53 in CPython)
MaxRows == 2       \* records in a list of several records given to the CSV writer
MaxInstruments == 2 \* instruments in one instrument-list response

----------------------------------------------------------------------------
(* Optional values: Python's None / a missing or empty JSON field *)

None == <<>>
Some(v) == <<v>>
Val(o) == o[1]

Prices == 0..MaxPrice
Symbols == {"BTC-A", "BTC-B"}
Sides == {"Buy", "Sell", "buy", "sell"}
Tifs == {"GTC", "IOC"}

\* str.lower() on the side strings in play
Lower(s) == CASE s = "Buy" -> "buy"
              [] s = "Sell" -> "sell"
              [] OTHER -> s

\* One record of /v5/execution/list: a fill of the order the exchange created
\* (NewOrderId), or a fill of another order on the same symbol
NewOrderId == "O1"
FillPrices == {None} \cup {Some(p) : p \in 1..MaxPrice}
ExecRecords == [orderId : {NewOrderId}, side : {"Buy", "Sell"}, execPrice : FillPrices]
               \cup [orderId : {"O2"}, side : {"Buy", "Sell"}, execPrice : {Some(MaxPrice)}]

RECURSIVE SeqsUpTo(_, _)
SeqsUpTo(S, n) == IF n = 0 THEN {<<>>}
                  ELSE LET shorter == SeqsUpTo(S, n - 1)
                       IN shorter \cup {Append(q, x) : q \in {r \in shorter : Len(r) = n - 1}, x \in S}

ExecLists == SeqsUpTo(ExecRecords, MaxExecs)

\* One record of /v5/order/realtime
OrderStatuses == {"New", "PartiallyFilled", "Filled", "Cancelled"}
OrderRecords == [orderStatus : OrderStatuses, avgPrice : FillPrices, price : FillPrices]
\* get_order_detail returns the "list" of the answer: no record, or the order's
OrderDetailLists == {<<>>} \cup {<<o>> : o \in OrderRecords}

\* retCode values of a rejected request; 110008 is "no active orders"
NoActiveOrders == 110008
RetCodes == {NoActiveOrders, 10002}

\* The numbers printed inside a retMsg (its other characters are not digits)
RetMsgNums == {<<>>, <<1110008999>>}

\* What the exchange answers to one request: a transport / HTTP failure, or
\* a JSON body with a retCode, a retMsg and (on success) a result payload
HttpFailure == [http |-> "error"]
ApiAnswers(Payloads) ==
    {[http |-> "ok", retCode |-> 0, msgNums |-> <<>>, result |-> p] : p \in Payloads}
    \cup {[http |-> "ok", retCode |-> c, msgNums |-> m, result |-> None] :
             c \in RetCodes, m \in RetMsgNums}
Answers(Payloads) == {HttpFailure} \cup ApiAnswers(Payloads)


----------------------------------------------------------------------------
(* Frames at rest *)

NoPo == [active |-> FALSE]
NoW == [active |-> FALSE]
NoPal == [active |-> FALSE]
NoCx == [active |-> FALSE]
NoHist == [active |-> FALSE]
NoEx == [active |-> FALSE]
NoSel == [active |-> FALSE]
NoCalc == [active |-> FALSE]
NoThr == [active |-> FALSE]
NoPt == [active |-> FALSE]
Running == [kind |-> "running"]
Returned(v) == [kind |-> "return", value |-> v]
Raised(e) == [kind |-> "raise", exc |-> e]

----------------------------------------------------------------------------
(* _send_request: resp.raise_for_status(), then ApiException unless the    *)
(* retCode is 0, else the parsed JSON                                      *)

ApiException(code, msgNums) == [type |-> "ApiException", code |-> code, msgNums |-> msgNums]

\* A _send_request that does not look at the retCode
send_request_unchecked(answer) ==
    IF answer.http # "ok" THEN Raised([type |-> "HTTPError"])
    ELSE Returned(answer.result)

send_request(answer) ==
    IF answer.http # "ok" THEN Raised([type |-> "HTTPError"])
    ELSE IF answer.retCode # 0 THEN Raised(ApiException(answer.retCode, answer.msgNums))
    ELSE Returned(answer.result)

----------------------------------------------------------------------------
(* get_trade_history: the records of the response whose orderId is the     *)
(* polled one                                                              *)

\* A history that hands back every record of the response
get_trade_history_any_order(raw, order_id) == raw

get_trade_history(raw, order_id) == SelectSeq(raw, LAMBDA t : t.orderId = order_id)

----------------------------------------------------------------------------
(* get_tick_size / round_to_tick                                           *)

\* Answers of /v5/market/instruments-info to get_tick_size: a failure
\* (transport, non-zero retCode, empty list) or an instrument record, whose
\* tickSize may be missing
TickSizes(max) == {None} \cup {Some(t) : t \in 0..max}
TickFailures == {[ok |-> FALSE, exc |-> e] : e \in {"HTTPError", "RuntimeError"}}
TickAnswers == TickFailures \cup {[ok |-> TRUE, tickSize |-> t] : t \in TickSizes(MaxTick)}

\* Line 196: float(lst[0].get("lotSizeFilter", {}).get("tickSize", 0))
TickOf(answer) == IF answer.tickSize = None THEN 0 ELSE Val(answer.tickSize)

\* A tick of zero replaced by a default of one
CheckedTickDefault(tick) == IF tick = 0 THEN Some(1) ELSE Some(tick)

\* Lines 204-205: `if not tick: raise ValueError`; None stands for the raise
CheckedTick(tick) == IF tick = 0 THEN None ELSE Some(tick)

\* A rounding that sends exact halves to the tick below
round_to_tick_half_down(price, tick) == ((2 * price + tick - 1) \div (2 * tick)) * tick

\* A rounding that truncates to the tick below
round_to_tick_floor(price, tick) == (price \div tick) * tick

\* (price / tick).quantize(1, ROUND_HALF_UP) * tick, on exact decimals
round_to_tick(price, tick) == ((2 * price + tick) \div (2 * tick)) * tick

\* A get_tick_size that asks the exchange on every call
get_tick_size_uncached(cache, symbol, answer) ==
    IF ~answer.ok
    THEN [cache |-> cache, asked |-> TRUE, out |-> Raised([type |-> answer.exc])]
    ELSE [cache |-> [cache EXCEPT ![symbol] = Some(TickOf(answer))], asked |-> TRUE,
          out |-> Returned(TickOf(answer))]

\* get_tick_size(symbol) as seen by round_to_tick: the cached value, or the
\* fetched one (which is then cached, zero included); a failed fetch raises
\* and leaves the cache alone.  [cache, asked, out]: the cache afterwards,
\* whether the instrument-info request went out, and the tick or the raise.
get_tick_size(cache, symbol, answer) ==
    IF cache[symbol] # None
    THEN [cache |-> cache, asked |-> FALSE, out |-> Returned(Val(cache[symbol]))]
    ELSE IF ~answer.ok
    THEN [cache |-> cache, asked |-> TRUE, out |-> Raised([type |-> answer.exc])]
    ELSE [cache |-> [cache EXCEPT ![symbol] = Some(TickOf(answer))], asked |-> TRUE,
          out |-> Returned(TickOf(answer))]

----------------------------------------------------------------------------
(* place_order(symbol, side, qty, price, tif, is_exit)                     *)

PlaceOrderFrame(ret, symbol, side, qty, price, tif, is_exit) ==
    [active |-> TRUE, ret |-> ret, symbol |-> symbol, side |-> side, qty |-> qty,
     price |-> price, tif |-> tif, is_exit |-> is_exit, body |-> None,
     answer |-> None, sent_before |-> Len(sent)]

\* uuid.uuid4().hex: a value the generator has not produced before
uuid4(n) == n + 1

\* A body built without the idempotency token
OrderBodyNoLinkId(symbol, side, qty, price, tif, is_exit, link_id) ==
    [category |-> "option", symbol |-> symbol, side |-> side,
     orderType |-> IF price # None THEN "Limit" ELSE "Market",
     qty |-> qty, timeInForce |-> tif, orderLinkId |-> None,
     price |-> price,
     reduceOnly |-> IF is_exit THEN Some(TRUE) ELSE None]

\* The JSON body of the create-order request (lines 386-393); `price` is the
\* tick-rounded price or None
OrderBody(symbol, side, qty, price, tif, is_exit, link_id) ==
    [category |-> "option", symbol |-> symbol, side |-> side,
     orderType |-> IF price # None THEN "Limit" ELSE "Market",
     qty |-> qty, timeInForce |-> tif, orderLinkId |-> Some(link_id),
     price |-> price,
     reduceOnly |-> IF is_exit THEN Some(TRUE) ELSE None]

\* A place_and_log that logs a failed entry order and carries on
PlaceOrderEndsEntryCaught(out) ==
    CASE po.ret = "entry" /\ out.kind = "return" ->
            /\ pc' = "pal_fast_sleep"
            /\ pal' = [pal EXCEPT !.oid = out.value.orderId]
            /\ UNCHANGED <<cx, pt, outcome>>
      [] po.ret = "entry" ->
            /\ pc' = "pal_detail"
            /\ UNCHANGED <<cx, pal, pt, outcome>>
      [] po.ret = "exit" /\ out.kind = "return" ->
            /\ pc' = "done"
            /\ outcome' = Returned([trades |-> pal.trades, trade_log |-> pal.trade_log])
            /\ UNCHANGED <<cx, pal, pt>>
      [] OTHER ->
            /\ pc' = "done"
            /\ outcome' = out
            /\ UNCHANGED <<cx, pal, pt>>

\* What the caller of place_order does with its outcome `out`; the try of
\* set_profit_targets (lines 851-859) catches ApiException and nothing else
PlaceOrderEnds(out) ==
    CASE po.ret = "entry" /\ out.kind = "return" ->
            /\ pc' = "pal_fast_sleep"
            /\ pal' = [pal EXCEPT !.oid = out.value.orderId]
            /\ UNCHANGED <<cx, pt, outcome>>
      [] po.ret = "exit" /\ out.kind = "return" ->
            /\ pc' = "done"
            /\ outcome' = Returned([trades |-> pal.trades, trade_log |-> pal.trade_log])
            /\ UNCHANGED <<cx, pal, pt>>
      [] po.ret = "close" /\ out.kind = "return" ->
            /\ pc' = "cx_close"
            /\ cx' = [cx EXCEPT !.k = @ + 1]
            /\ UNCHANGED <<pal, pt, outcome>>
      [] po.ret = "target" /\ (out.kind = "return" \/ out.exc.type = "ApiException") ->
            /\ pc' = "pt_loop"
            /\ pt' = [pt EXCEPT !.k = @ + 1, !.outs = Append(@, out)]
            /\ UNCHANGED <<cx, pal, outcome>>
      [] po.ret = "target" ->
            /\ pc' = "done"
            /\ pt' = [pt EXCEPT !.outs = Append(@, out)]
            /\ outcome' = out
            /\ UNCHANGED <<cx, pal>>
      [] po.ret = "top" ->
            /\ pc' = "idle"
            /\ outcome' = out
            /\ UNCHANGED <<cx, pal, pt>>
      [] OTHER ->
            /\ pc' = "done"
            /\ outcome' = out
            /\ UNCHANGED <<cx, pal, pt>>

\* Lines 384-393: round the price to the tick when one is given, build the body
PlaceOrderPrepare ==
    /\ pc = "po_prepare"
    /\ IF po.price = None
       THEN /\ po' = [po EXCEPT !.body = Some(OrderBody(po.symbol, po.side, po.qty, None,
                                                        po.tif, po.is_exit, uuid4(uuid_n)))]
            /\ uuid_n' = uuid_n + 1
            /\ pc' = "po_send"
            /\ UNCHANGED <<tick_cache, pal, cx, pt, outcome>>
       ELSE \E answer \in TickAnswers :
              LET got == get_tick_size(tick_cache, po.symbol, answer)
                  tick == got.out.value
              IN /\ tick_cache' = got.cache
                 /\ IF got.out.kind = "raise"
                    THEN /\ po' = [po EXCEPT !.active = FALSE]
                         /\ uuid_n' = uuid_n
                         /\ PlaceOrderEnds(got.out)
                    ELSE IF CheckedTick(tick) = None
                    THEN /\ po' = [po EXCEPT !.active = FALSE]
                         /\ uuid_n' = uuid_n
                         /\ PlaceOrderEnds(Raised([type |-> "ValueError"]))
                    ELSE /\ po' = [po EXCEPT !.body =
                                     Some(OrderBody(po.symbol, po.side, po.qty,
                                                    Some(round_to_tick(Val(po.price),
                                                                       Val(CheckedTick(tick)))),
                                                    po.tif, po.is_exit, uuid4(uuid_n)))]
                         /\ uuid_n' = uuid_n + 1
                         /\ pc' = "po_send"
                         /\ UNCHANGED <<pal, cx, pt, outcome>>
    /\ UNCHANGED <<now, sent, w, hist, lats, ex, sel, calc, thr>>

\* Lines 394-397: POST /v5/order/create and return the answer's result
PlaceOrderSend ==
    /\ pc = "po_send"
    /\ sent' = Append(sent, Val(po.body))
    /\ \E answer \in Answers({[orderId |-> NewOrderId]}) :
         /\ po' = [po EXCEPT !.active = FALSE, !.answer = Some(answer)]
         /\ PlaceOrderEnds(send_request(answer))
    /\ UNCHANGED <<now, tick_cache, uuid_n, w, hist, lats, ex, sel, calc, thr>>

PlaceOrderNext == PlaceOrderPrepare \/ PlaceOrderSend

----------------------------------------------------------------------------
(* wait_for_order_fill(symbol, order_id, timeout, poll_interval)           *)

\* The call is made with the given arguments; `ret` is where it returns to.
\* called / slept: whether the call has made an exchange request / has slept.
WaitFrame(ret, order_id, timeout, poll_interval) ==
    [active |-> TRUE, ret |-> ret, order_id |-> order_id, timeout |-> timeout,
     poll_interval |-> poll_interval, start |-> 0, iters |-> 0, iter_at |-> 0,
     stalls |-> 0, called |-> FALSE, slept |-> FALSE, hit |-> None]

\* What the caller sees when wait_for_order_fill ends with `out`.  Back in
\* place_and_log the frame is gone and the clock is not read again, so both
\* are put back to rest.
WaitEnds(out, frame) ==
    IF w.ret = "pal" /\ out.kind = "return"
    THEN /\ pc' = "pal_detail"
         /\ pal' = [pal EXCEPT !.trades = out.value]
         /\ outcome' = outcome
         /\ w' = NoW
         /\ now' = 0
    ELSE /\ pc' = "done"
         /\ pal' = pal
         /\ outcome' = out
         /\ w' = frame

\* start = time.time()
WaitStart ==
    /\ pc = "w_start"
    /\ w' = [w EXCEPT !.start = now]
    /\ pc' = "w_check"
    /\ UNCHANGED <<now, tick_cache, uuid_n, sent, po, pal, cx, hist, lats, ex, sel, outcome, calc, thr, pt>>

\* A loop test that also enters the loop when the timeout has just elapsed
WaitLoopTestInclusive == now - w.start <= w.timeout

\* time.time() - start < timeout
WaitLoopTest == now - w.start < w.timeout

\* while time.time() - start < timeout: ... ; return []
WaitCheck ==
    /\ pc = "w_check"
    /\ IF WaitLoopTest
       THEN /\ pc' = "w_hist1"
            /\ w' = [w EXCEPT !.iters = @ + 1, !.iter_at = now]
            /\ UNCHANGED <<pal, outcome>>
            /\ now' = now
       ELSE /\ WaitEnds(Returned(<<>>), w)
            /\ w.ret = "pal" \/ now' = now
    /\ UNCHANGED <<tick_cache, uuid_n, sent, po, cx, hist, lats, ex, sel, calc, thr, pt>>

\* A poll that keeps looping when it has found execution records
WaitPollStepIgnoresHit(next) ==
    /\ \E lat \in lats, answer \in Answers(ExecLists) :
         LET data == send_request(answer)
             trades == get_trade_history(data.value, w.order_id)
         IN /\ now' = now + lat
            /\ IF data.kind = "raise"
               THEN /\ w' = [w EXCEPT !.called = TRUE]
                    /\ pc' = "done" /\ outcome' = data /\ pal' = pal
               ELSE /\ w' = [w EXCEPT !.called = TRUE,
                                      !.hit = IF trades # <<>> /\ @ = None
                                              THEN Some([trades |-> trades, iters |-> w.iters])
                                              ELSE @]
                    /\ pc' = next
                    /\ UNCHANGED <<pal, outcome>>
    /\ UNCHANGED <<tick_cache, uuid_n, sent, po, cx, hist, lats, ex, sel, calc, thr, pt>>

\* A poll of get_trade_history inside the loop (the first of an iteration or
\* the one made after a Filled / PartiallyFilled status): a non-empty result
\* is returned at once, an empty one moves on to `next`.  `hit` notes the
\* first non-empty result the method yielded.
WaitPollStep(next) ==
    /\ \E lat \in lats, answer \in Answers(ExecLists) :
         LET data == send_request(answer)
             trades == get_trade_history(data.value, w.order_id)
         IN IF data.kind = "raise"
            THEN /\ w' = [w EXCEPT !.called = TRUE]
                 /\ now' = now + lat
                 /\ pc' = "done" /\ outcome' = data /\ pal' = pal
            ELSE IF trades # <<>>
            THEN /\ WaitEnds(Returned(trades),
                             [w EXCEPT !.called = TRUE,
                                       !.hit = Some([trades |-> trades, iters |-> w.iters])])
                 /\ w.ret = "pal" \/ now' = now + lat
            ELSE /\ w' = [w EXCEPT !.called = TRUE]
                 /\ now' = now + lat
                 /\ pc' = next
                 /\ UNCHANGED <<pal, outcome>>
    /\ UNCHANGED <<tick_cache, uuid_n, sent, po, cx, hist, lats, ex, sel, calc, thr, pt>>

WaitHist1 ==
    /\ pc = "w_hist1"
    /\ WaitPollStep("w_detail")

WaitHist2 ==
    /\ pc = "w_hist2"
    /\ WaitPollStep("w_sleep")

\* details = get_order_detail(...); status = details[0].orderStatus if details else ""
WaitDetail ==
    /\ pc = "w_detail"
    /\ \E lat \in lats, answer \in Answers(OrderDetailLists) :
         LET data == send_request(answer)
             status == IF data.value # <<>> THEN data.value[1].orderStatus ELSE ""
         IN /\ now' = now + lat
            /\ w' = [w EXCEPT !.called = TRUE]
            /\ IF data.kind = "raise"
               THEN pc' = "done" /\ outcome' = data
               ELSE /\ pc' = IF status \in {"Filled", "PartiallyFilled"}
                             THEN "w_hist2" ELSE "w_sleep"
                    /\ outcome' = outcome
    /\ UNCHANGED <<tick_cache, uuid_n, sent, po, pal, cx, hist, lats, ex, sel, calc, thr, pt>>

\* time.sleep(poll_interval): a negative length raises ValueError
WaitSleep ==
    /\ pc = "w_sleep"
    /\ IF w.poll_interval < 0
       THEN /\ pc' = "done" /\ outcome' = Raised([type |-> "ValueError"])
            /\ UNCHANGED <<now, w>>
       ELSE /\ now' = now + w.poll_interval
            /\ pc' = "w_check"
            /\ outcome' = outcome
            \* an iteration that took no time at all is explored MaxStall times
            /\ now' = w.iter_at => w.stalls < MaxStall
            /\ w' = [w EXCEPT !.slept = TRUE,
                              !.stalls = IF now' = w.iter_at THEN @ + 1 ELSE @]
    /\ UNCHANGED <<tick_cache, uuid_n, sent, po, pal, cx, hist, lats, ex, sel, calc, thr, pt>>

WaitNext == WaitStart \/ WaitCheck \/ WaitHist1 \/ WaitHist2 \/ WaitDetail \/ WaitSleep

\* A stand-alone call wait_for_order_fill(symbol, order_id, timeout, poll_interval)
InitWait ==
    /\ pc = "w_start"
    /\ now = 0
    /\ lats \in {0..MaxLatency, 1..MaxLatency}
    /\ tick_cache = [s \in Symbols |-> None]
    /\ uuid_n = 0
    /\ sent = <<>>
    /\ po = NoPo /\ pal = NoPal /\ cx = NoCx /\ hist = NoHist /\ ex = NoEx /\ sel = NoSel
    /\ calc = NoCalc /\ thr = NoThr /\ pt = NoPt
    /\ \E t \in (0 - 1)..MaxTimeout, p \in (0 - 1)..MaxPoll :
         w = WaitFrame("top", NewOrderId, t, p)
    /\ outcome = Running

SpecWait == InitWait /\ [][WaitNext]_vars

\* The same call under the scheduling of a running Python thread: a step
\* that can be taken is eventually taken.
SpecWaitFair == SpecWait /\ WF_vars(WaitNext)

----------------------------------------------------------------------------
(* place_and_log(symbol, side, qty, entry_price, tif)                      *)

FastPollsPlusOne == 5 + 1 \* a fast loop of one more round
FastPolls == 5            \* for _ in range(5)
DefaultTimeout == 60      \* wait_for_order_fill(..., timeout=60, ...)
DefaultPollInterval == 2  \* wait_for_order_fill(..., poll_interval=2)
TargetMultiple == 3       \* target = round_to_tick(entry_price * 3, symbol)

\* Python truthiness of an optional number: None and 0 are false
Truthy(o) == o # None /\ o # Some(0)

\* An inference that prefers the order's avgPrice to the execution's price
InferEntryPriceAvgFirst(entry_price, trades, order, side) ==
    IF Truthy(entry_price) THEN entry_price
    ELSE LET same == {i \in DOMAIN trades : Lower(trades[i].side) = Lower(side)}
             entry == IF same = {} THEN None
                      ELSE Some(trades[CHOOSE i \in same : \A j \in same : i <= j])
         IN IF order # None /\ Val(order).avgPrice # None THEN Val(order).avgPrice
            ELSE IF entry # None /\ Val(entry).execPrice # None THEN Val(entry).execPrice
            ELSE IF order # None /\ Val(order).price # None THEN Val(order).price
            ELSE None

\* Lines 603-613: the entry price the exit is computed from, None when the
\* exit is to be skipped.  A truthy limit price is used as it is; otherwise
\* the price is inferred from the first execution on the submitted side,
\* then the order's avgPrice, then the order's price.
InferEntryPrice(entry_price, trades, order, side) ==
    IF Truthy(entry_price) THEN entry_price
    ELSE LET same == {i \in DOMAIN trades : Lower(trades[i].side) = Lower(side)}
             entry == IF same = {} THEN None
                      ELSE Some(trades[CHOOSE i \in same : \A j \in same : i <= j])
         IN IF entry # None /\ Val(entry).execPrice # None THEN Val(entry).execPrice
            ELSE IF order # None /\ Val(order).avgPrice # None THEN Val(order).avgPrice
            ELSE IF order # None /\ Val(order).price # None THEN Val(order).price
            ELSE None

\* An exit on the side of the entry
ExitSideSame(side) == IF Lower(side) = "buy" THEN "Buy" ELSE "Sell"

\* exit_side = "Sell" if side.lower() == "buy" else "Buy"
ExitSide(side) == IF Lower(side) = "buy" THEN "Sell" ELSE "Buy"

\* A test that never takes the unfilled path
NotFilledNever(trades) == FALSE

\* Line 598: if not trades
NotFilled(trades) == trades = <<>>

\* Line 574: the entry order
PalEntry ==
    /\ pc = "pal_entry"
    /\ po' = PlaceOrderFrame("entry", pal.symbol, pal.side, pal.qty, pal.limit_price,
                             pal.tif, FALSE)
    /\ pc' = "po_prepare"
    /\ UNCHANGED <<now, tick_cache, uuid_n, sent, w, pal, cx, hist, lats, ex, sel, outcome, calc, thr, pt>>

\* Lines 578-584: one round of the fast loop (sleep, poll, break on a fill);
\* after the fifth empty round wait_for_order_fill is called with its defaults.
\* pal.i counts the empty polls made (it is cleared when the loop is left on
\* a fill).  Nothing reads the clock here, so the sleep leaves `now` alone.
PalFastPoll ==
    /\ pc = "pal_fast_sleep"
    /\ \E answer \in Answers(ExecLists) :
         LET data == send_request(answer)
             trades == get_trade_history(data.value, pal.oid)
         IN /\ IF data.kind = "raise"
               THEN pc' = "done" /\ outcome' = data /\ pal' = pal /\ w' = w
               ELSE /\ outcome' = outcome
                    /\ pal' = [pal EXCEPT !.trades = trades,
                                          !.i = IF trades # <<>> THEN 0 ELSE @ + 1]
                    /\ IF trades # <<>>
                       THEN pc' = "pal_detail" /\ w' = w
                       ELSE IF pal.i + 1 < FastPolls
                       THEN pc' = "pal_fast_sleep" /\ w' = w
                       ELSE /\ pc' = "w_start"
                            /\ w' = WaitFrame("pal", pal.oid, DefaultTimeout,
                                              DefaultPollInterval)
    /\ UNCHANGED <<now, tick_cache, uuid_n, sent, po, cx, hist, lats, ex, sel, calc, thr, pt>>

\* The order-detail answers place_and_log can get for its order
PalOrderDetailLists == {<<>>} \cup {<<o>> : o \in {r \in OrderRecords : r.orderStatus = "Filled"}}

\* Lines 587-600: fetch the order detail, write the audit file (named after
\* the UTC second), and return when there are no executions
PalDetailLog ==
    /\ pc = "pal_detail"
    /\ \E answer \in Answers(PalOrderDetailLists) :
         LET data == send_request(answer)
             order == IF data.value # <<>> THEN Some(data.value[1]) ELSE None
         IN IF data.kind = "raise"
            THEN pc' = "done" /\ outcome' = data /\ pal' = pal
            ELSE /\ pal' = [pal EXCEPT !.order = order, !.trade_log = Some(now),
                                       !.detail_fetched = TRUE]
                 /\ IF NotFilled(pal.trades)
                    THEN /\ pc' = "done"
                         /\ outcome' = Returned([trades |-> pal.trades,
                                                 trade_log |-> Some(now)])
                    ELSE pc' = "pal_infer" /\ outcome' = outcome
    /\ UNCHANGED <<now, tick_cache, uuid_n, sent, po, w, cx, hist, lats, ex, sel, calc, thr, pt>>

\* Lines 602-613: settle entry_price, or skip the exit when none can be had
PalInfer ==
    /\ pc = "pal_infer"
    /\ LET price == InferEntryPrice(pal.limit_price, pal.trades, pal.order, pal.side)
       IN IF price = None
          THEN /\ pc' = "done"
               /\ outcome' = Returned([trades |-> pal.trades, trade_log |-> pal.trade_log])
               /\ pal' = pal
          ELSE /\ pc' = "pal_target"
               /\ pal' = [pal EXCEPT !.entry_price = price]
               /\ outcome' = outcome
    /\ UNCHANGED <<now, tick_cache, uuid_n, sent, po, w, cx, hist, lats, ex, sel, calc, thr, pt>>

\* Lines 614-617: the target price and the exit order; the order detail is
\* not used from here on
PalTarget ==
    /\ pc = "pal_target"
    /\ \E answer \in TickAnswers :
         LET got == get_tick_size(tick_cache, pal.symbol, answer)
             tick == got.out.value
         IN /\ tick_cache' = got.cache
            /\ IF got.out.kind = "raise"
               THEN pc' = "done" /\ outcome' = got.out /\ po' = po /\ pal' = pal
               ELSE IF tick = 0
               THEN /\ pc' = "done" /\ outcome' = Raised([type |-> "ValueError"])
                    /\ po' = po /\ pal' = pal
               ELSE /\ po' = PlaceOrderFrame("exit", pal.symbol, ExitSide(pal.side), pal.qty,
                               Some(round_to_tick(Val(pal.entry_price) * TargetMultiple, tick)),
                               pal.tif, TRUE)
                    /\ pal' = [pal EXCEPT !.order = None]
                    /\ pc' = "po_prepare"
                    /\ outcome' = outcome
    /\ UNCHANGED <<now, uuid_n, sent, w, cx, hist, lats, ex, sel, calc, thr, pt>>

\* The arguments place_and_log is called with: side, quantity, time in force
PalArgs == {<<"Buy", 1, "GTC">>, <<"sell", 2, "IOC">>}

InitPal ==
    /\ pc = "pal_entry"
    /\ now = 0
    /\ lats = {0}
    /\ tick_cache = [s \in Symbols |-> None]
    /\ uuid_n = 0
    /\ sent = <<>>
    /\ po = NoPo /\ w = NoW /\ cx = NoCx /\ hist = NoHist /\ ex = NoEx /\ sel = NoSel
    /\ calc = NoCalc /\ thr = NoThr /\ pt = NoPt
    /\ \E a \in PalArgs, price \in {None} \cup {Some(p) : p \in Prices} :
         pal = [active |-> TRUE, symbol |-> "BTC-A", side |-> a[1], qty |-> a[2],
                limit_price |-> price, tif |-> a[3], oid |-> None, trades |-> <<>>,
                i |-> 0, order |-> None, trade_log |-> None, entry_price |-> price,
                detail_fetched |-> FALSE]
    /\ outcome = Running

PalNext ==
    \/ PalEntry \/ PlaceOrderPrepare \/ PlaceOrderSend \/ PalFastPoll
    \/ WaitStart \/ WaitCheck \/ WaitHist1 \/ WaitHist2 \/ WaitDetail \/ WaitSleep
    \/ PalDetailLog \/ PalInfer \/ PalTarget

SpecPal == InitPal /\ [][PalNext]_vars

----------------------------------------------------------------------------
(* cancel_all(trader): cancel_all_orders, then close every open position    *)

\* Whether the decimal digits of n contain the digits 110008
HasDigits110008(n) == \E k \in 0..4 : (n \div (10 ^ k)) % 1000000 = NoActiveOrders

\* "110008" in str(exc), for exc = ApiException(f"API Error {retCode}: {retMsg}")
Mentions110008(exc) ==
    \/ HasDigits110008(exc.code)
    \/ \E i \in 1..Len(exc.msgNums) : HasDigits110008(exc.msgNums[i])

\* One record of /v5/position/list
PositionRecords == [symbol : {"BTC-A"}, side : {"Buy", "Sell"}, size : {0 - 1, 0, 1}]
PositionLists == SeqsUpTo(PositionRecords, MaxPositions)

\* A quantity that keeps the sign of the size
KeepSign(n) == n

\* abs(float(pos.get("size", 0))) at line 687
Abs(n) == IF n < 0 THEN 0 - n ELSE n

\* Lines 451-463: POST /v5/order/cancel-all; an ApiException whose text
\* mentions 110008 is logged and dropped, any other exception propagates
CancelAllOrders ==
    /\ pc = "cx_cancel"
    /\ \E answer \in Answers({None}) :
         LET data == send_request(answer)
         IN IF /\ data.kind = "raise"
               /\ ~(data.exc.type = "ApiException" /\ Mentions110008(data.exc))
            THEN /\ cx' = [cx EXCEPT !.answer = Some(answer), !.result = Some(data)]
                 /\ pc' = "done"
                 /\ outcome' = data
            ELSE /\ cx' = [cx EXCEPT !.answer = Some(answer),
                                     !.result = Some(Returned(None))]
                 /\ pc' = "cx_positions"
                 /\ outcome' = outcome
    /\ UNCHANGED <<now, tick_cache, uuid_n, sent, po, w, pal, hist, lats, ex, sel, calc, thr, pt>>

\* Line 686: trader.get_positions()
CancelGetPositions ==
    /\ pc = "cx_positions"
    /\ \E answer \in Answers(PositionLists) :
         LET data == send_request(answer)
         IN IF data.kind = "raise"
            THEN pc' = "done" /\ outcome' = data /\ cx' = cx
            ELSE /\ cx' = [cx EXCEPT !.positions = data.value, !.k = 1]
                 /\ pc' = "cx_close"
                 /\ outcome' = outcome
    /\ UNCHANGED <<now, tick_cache, uuid_n, sent, po, w, pal, hist, lats, ex, sel, calc, thr, pt>>

\* Lines 686-691: the next position; one of non-zero size is closed with
\* close_position, a reduce-only market order on the other side
CancelClose ==
    /\ pc = "cx_close"
    /\ IF cx.k > Len(cx.positions)
       THEN /\ pc' = "done"
            /\ outcome' = Returned(None)
            /\ UNCHANGED <<cx, po>>
       ELSE LET pos == cx.positions[cx.k]
                qty == Abs(pos.size)
            IN IF qty = 0
               THEN /\ cx' = [cx EXCEPT !.k = @ + 1]
                    /\ UNCHANGED <<pc, po, outcome>>
               ELSE /\ po' = PlaceOrderFrame("close", pos.symbol, ExitSide(pos.side), qty,
                                             None, "GTC", TRUE)
                    /\ pc' = "po_prepare"
                    /\ UNCHANGED <<cx, outcome>>
    /\ UNCHANGED <<now, tick_cache, uuid_n, sent, w, pal, hist, lats, ex, sel, calc, thr, pt>>

InitCancel ==
    /\ pc = "cx_cancel"
    /\ now = 0
    /\ lats = {0}
    /\ tick_cache = [s \in Symbols |-> None]
    /\ uuid_n = 0
    /\ sent = <<>>
    /\ po = NoPo /\ w = NoW /\ pal = NoPal /\ hist = NoHist /\ ex = NoEx /\ sel = NoSel
    /\ calc = NoCalc /\ thr = NoThr /\ pt = NoPt
    /\ cx = [active |-> TRUE, answer |-> None, result |-> None,
             positions |-> <<>>, k |-> 0]
    /\ outcome = Running

CancelNext ==
    \/ CancelAllOrders \/ CancelGetPositions \/ CancelClose
    \/ PlaceOrderPrepare \/ PlaceOrderSend

SpecCancel == InitCancel /\ [][CancelNext]_vars

----------------------------------------------------------------------------
(* list_trade_history and list_delivery_history                             *)

\* Lines 491 and 538: seven days in milliseconds
max_range == 7 * 24 * 60 * 60 * 1000

\* Line 496: the number of consecutive empty windows that ends the walk
MaxEmptyRuns == 3

Max(a, b) == IF a >= b THEN a ELSE b

\* Millisecond timestamps passed as start_time and end_time
StartTimes == {0, 1, max_range}
EndTimes == {0, max_range, max_range + 1, 2 * max_range + 1, 3 * max_range + 4}

Endpoints == {"/v5/execution/list", "/v5/asset/delivery-record"}

\* result of one page: its records and the cursor to the next page
Cursors == {None, Some(""), Some("c1")}
PagePayloads == [list : SeqsUpTo({"rec"}, 1), nextPageCursor : Cursors]

\* `if cursor:` / `if not cursor:` on an optional string
CursorSet(c) == c # None /\ Val(c) # ""

HistCurrentStartUnclamped(start_time, current_end) == current_end - max_range

\* A window start that lies behind the window end
HistCurrentStartStuck(start_time, current_end) == current_end + 1

\* Lines 497 and 544
HistCurrentStart(start_time, current_end) == Max(start_time, current_end - max_range)

HistLoopTestNoBreaker(current_end, start_time, empty_runs) == current_end > start_time

\* Lines 496 and 543: while current_end > start_time and empty_runs < 3
HistLoopTest(current_end, start_time, empty_runs) ==
    current_end > start_time /\ empty_runs < MaxEmptyRuns

\* Lines 496-503 and 543-550: the loop test, and the next window's bounds
HistWindow ==
    /\ pc = "h_loop"
    /\ IF HistLoopTest(hist.current_end, hist.start_time, hist.empty_runs)
       THEN /\ hist' = [hist EXCEPT
                          !.current_start = HistCurrentStart(hist.start_time, hist.current_end),
                          !.cursor = None,
                          !.chunk = <<>>,
                          !.pages = 0]
            /\ pc' = "h_page"
            /\ outcome' = outcome
       ELSE /\ pc' = "done"
            /\ outcome' = Returned(hist.trades)
            /\ hist' = hist
    /\ UNCHANGED <<now, tick_cache, uuid_n, sent, po, w, pal, cx, lats, ex, sel, calc, thr, pt>>

\* Lines 504-512 and 551-561: one page request of the current window
HistPage ==
    /\ pc = "h_page"
    /\ \E answer \in Answers(PagePayloads) :
         /\ (hist.pages + 1 >= MaxPages /\ answer.http = "ok" /\ answer.retCode = 0) =>
               ~CursorSet(answer.result.nextPageCursor)
         /\ LET data == send_request(answer)
                req == [endpoint |-> hist.endpoint,
                        startTime |-> hist.current_start,
                        endTime |-> hist.current_end,
                        cursor |-> IF CursorSet(hist.cursor) THEN hist.cursor ELSE None]
            IN IF data.kind = "raise"
               THEN /\ hist' = [hist EXCEPT !.reqs = Append(@, req)]
                    /\ pc' = "done"
                    /\ outcome' = data
               ELSE /\ hist' = [hist EXCEPT !.reqs = Append(@, req),
                                            !.chunk = @ \o data.value.list,
                                            !.cursor = data.value.nextPageCursor,
                                            !.pages = @ + 1]
                    /\ pc' = IF CursorSet(data.value.nextPageCursor)
                             THEN "h_page" ELSE "h_chunk"
                    /\ outcome' = outcome
    /\ UNCHANGED <<now, tick_cache, uuid_n, sent, po, w, pal, cx, lats, ex, sel, calc, thr, pt>>

\* Lines 514-520 and 563-567: keep the chunk, count empty windows, step back
HistWindowEnd ==
    /\ pc = "h_chunk"
    /\ hist' = [hist EXCEPT
                  !.trades = @ \o hist.chunk,
                  !.empty_runs = IF hist.chunk # <<>> THEN 0 ELSE @ + 1,
                  !.current_end = hist.current_start - 1,
                  !.wins = Append(@, hist.chunk = <<>>),
                  !.chunk = <<>>,
                  !.cursor = None]
    /\ pc' = "h_loop"
    /\ UNCHANGED <<now, tick_cache, uuid_n, sent, po, w, pal, cx, lats, ex, sel, outcome, calc, thr, pt>>

\* Lines 488-494 and 535-541: end_time defaults to the clock in milliseconds
InitHist ==
    /\ pc = "h_loop"
    /\ now \in {t \div 1000 : t \in EndTimes}
    /\ lats = {0}
    /\ tick_cache = [s \in Symbols |-> None]
    /\ uuid_n = 0
    /\ sent = <<>>
    /\ po = NoPo /\ w = NoW /\ pal = NoPal /\ cx = NoCx /\ ex = NoEx /\ sel = NoSel
    /\ calc = NoCalc /\ thr = NoThr /\ pt = NoPt
    /\ \E endpoint \in Endpoints, start_time \in StartTimes,
          end_time \in {None} \cup {Some(t) : t \in EndTimes} :
         /\ end_time # None => now = 0
         /\ hist = [active |-> TRUE,
                    endpoint |-> endpoint,
                    start_time |-> start_time,
                    end_time |-> IF end_time = None THEN now * 1000 ELSE Val(end_time),
                    current_end |-> IF end_time = None THEN now * 1000 ELSE Val(end_time),
                    current_start |-> 0,
                    empty_runs |-> 0,
                    cursor |-> None,
                    chunk |-> <<>>,
                    pages |-> 0,
                    trades |-> <<>>,
                    wins |-> <<>>,
                    reqs |-> <<>>]
    /\ outcome = Running

HistNext == HistWindow \/ HistPage \/ HistWindowEnd

SpecHist == InitHist /\ [][HistNext]_vars

\* The same calls under the scheduling of a running Python thread: a step
\* that can be taken is eventually taken.  Every cursor chain of HistPage
\* ends after MaxPages pages at the latest.
SpecHistFair == SpecHist /\ WF_vars(HistNext)


----------------------------------------------------------------------------
(* list_trade_history against an exchange that holds a fixed set of records *)

\* Execution times of the records the exchange may hold
RecordTimes == {0, 1, max_range, max_range + 1, 3 * max_range + 4}

\* The members of the set of numbers S, largest first
RECURSIVE SortDesc(_)
SortDesc(S) ==
    IF S = {} THEN <<>>
    ELSE LET top == CHOOSE x \in S : \A y \in S : y <= x
         IN <<top>> \o SortDesc(S \ {top})

\* The records the exchange serves for startTime=a&endTime=b, newest first
HeldInWindow(held, a, b) ==
    LET times == SortDesc({t \in held : a <= t /\ t <= b})
    IN [i \in 1..Len(times) |-> [execTime |-> times[i]]]

\* Lines 504-512 when the exchange answers from its records: page
\* hist.pages + 1 of the window, with a cursor while records remain
StorePage ==
    /\ pc = "h_page"
    /\ LET all == HeldInWindow(hist.held, hist.current_start, hist.current_end)
           from == hist.pages * PageLimit + 1
           upto == IF from + PageLimit - 1 <= Len(all) THEN from + PageLimit - 1 ELSE Len(all)
           req == [endpoint |-> hist.endpoint,
                   startTime |-> hist.current_start,
                   endTime |-> hist.current_end,
                   cursor |-> IF CursorSet(hist.cursor) THEN hist.cursor ELSE None]
       IN \E answer \in {HttpFailure} \cup
                  {[http |-> "ok", retCode |-> 0, msgNums |-> <<>>,
                    result |-> [list |-> SubSeq(all, from, upto), nextPageCursor |-> c]] :
                     c \in IF upto < Len(all) THEN {Some("c1")} ELSE {None, Some("")}} :
            LET data == send_request(answer)
            IN IF data.kind = "raise"
               THEN /\ hist' = [hist EXCEPT !.reqs = Append(@, req)]
                    /\ pc' = "done"
                    /\ outcome' = data
               ELSE /\ hist' = [hist EXCEPT !.reqs = Append(@, req),
                                            !.chunk = @ \o data.value.list,
                                            !.cursor = data.value.nextPageCursor,
                                            !.pages = @ + 1]
                    /\ pc' = IF CursorSet(data.value.nextPageCursor)
                             THEN "h_page" ELSE "h_chunk"
                    /\ outcome' = outcome
    /\ UNCHANGED <<now, tick_cache, uuid_n, sent, po, w, pal, cx, lats, ex, sel, calc, thr, pt>>

InitStore ==
    /\ pc = "h_loop"
    /\ now = 0
    /\ lats = {0}
    /\ tick_cache = [s \in Symbols |-> None]
    /\ uuid_n = 0
    /\ sent = <<>>
    /\ po = NoPo /\ w = NoW /\ pal = NoPal /\ cx = NoCx /\ ex = NoEx /\ sel = NoSel
    /\ calc = NoCalc /\ thr = NoThr /\ pt = NoPt
    /\ \E start_time \in StartTimes, end_time \in EndTimes, held \in SUBSET RecordTimes :
         hist = [active |-> TRUE,
                 endpoint |-> "/v5/execution/list",
                 start_time |-> start_time,
                 end_time |-> end_time,
                 current_end |-> end_time,
                 current_start |-> 0,
                 empty_runs |-> 0,
                 cursor |-> None,
                 chunk |-> <<>>,
                 pages |-> 0,
                 trades |-> <<>>,
                 wins |-> <<>>,
                 reqs |-> <<>>,
                 held |-> held]
    /\ outcome = Running

StoreNext == HistWindow \/ StorePage \/ HistWindowEnd

SpecStore == InitStore /\ [][StoreNext]_vars

----------------------------------------------------------------------------
(* _write_trade_history_csv(trader, trades, filename)                       *)

\* A field of an exchange record: missing from the dict, None, a string, or
\* a number (given as a number or as a numeric string)
Absent == [k |-> "absent"]
Null == [k |-> "none"]
Str(s) == [k |-> "str", s |-> s]
Num(n) == [k |-> "num", n |-> n]

\* The fields of a record that the writer reads
CsvFields == {"execTime", "closedPnl", "realisedPnl", "execPnl", "execValue", "execFee", "side"}

\* t.keys()
Keys(t) == {f \in CsvFields : t[f] # Absent}

\* Magnitude and sign of an integer
Sign(x) == IF x < 0 THEN 0 - 1 ELSE 1

\* Round-to-nearest, ties-to-even, onto the numbers with FloatBits
\* significant bits: what every float operation does to its exact result
Fl(x) ==
    LET mag == Abs(x)
    IN IF mag < 2 ^ FloatBits THEN x
       ELSE LET e == CHOOSE i \in 1..20 : 2 ^ (FloatBits + i - 1) <= mag /\ mag < 2 ^ (FloatBits + i)
                step == 2 ^ e
                q == mag \div step
                r == mag % step
                up == 2 * r > step \/ (2 * r = step /\ q % 2 = 1)
            IN Sign(x) * (IF up THEN q + 1 ELSE q) * step

FAdd(a, b) == Fl(a + b)
FSub(a, b) == Fl(a - b)

\* sum(ps): float additions from 0, left to right
RECURSIVE FSum(_)
FSum(ps) == IF ps = <<>> THEN 0 ELSE FAdd(FSum(SubSeq(ps, 1, Len(ps) - 1)), ps[Len(ps)])

\* float(v) succeeds
FloatOk(v) == v.k = "num"
\* float(v)
Float(v) == Fl(v.n)

\* float(t.get(f, 0) or 0): [ok, v]
FloatOrZero(v) ==
    IF v \in {Absent, Null, Str("")} THEN [ok |-> TRUE, v |-> 0]
    ELSE IF FloatOk(v) THEN [ok |-> TRUE, v |-> Float(v)]
    ELSE [ok |-> FALSE, v |-> 0]

\* Lines 722-725: netFee
NetFee(t) == IF FloatOk(t.execFee) THEN Float(t.execFee) ELSE 0

\* Lines 727-734: the reported P&L, None when no field yields a number
ReportedPnl(t) ==
    LET usable(f) == t[f] \notin {Absent, Null, Str("")} /\ FloatOk(t[f])
    IN IF usable("closedPnl") THEN Some(Float(t.closedPnl))
       ELSE IF usable("realisedPnl") THEN Some(Float(t.realisedPnl))
       ELSE IF usable("execPnl") THEN Some(Float(t.execPnl))
       ELSE None

NetPnlReportedOnly(t) == IF ReportedPnl(t) # None THEN Val(ReportedPnl(t)) ELSE 0

\* Lines 727-745: netPnl
NetPnl(t) ==
    IF ReportedPnl(t) # None THEN Val(ReportedPnl(t))
    ELSE LET value == FloatOrZero(t.execValue)
             sign == IF t.side \in {Str("Sell"), Str("sell")} THEN 1 ELSE 0 - 1
             fee == FloatOrZero(t.execFee)
         IN IF value.ok /\ fee.ok THEN FSub(Fl(sign * value.v), fee.v) ELSE 0

\* Line 717: int(x.get("execTime", 0)) succeeds
TimeKeyOk(t) == t.execTime = Absent \/ t.execTime.k = "num"
\* Line 717: the sort key
TimeKey(t) == IF t.execTime = Absent THEN 0 ELSE t.execTime.n

\* Line 717: sorted(trades, key=...), a stable sort
RECURSIVE SortedByTime(_)
SortedByTime(trades) ==
    IF trades = <<>> THEN <<>>
    ELSE LET init == SortedByTime(SubSeq(trades, 1, Len(trades) - 1))
             t == trades[Len(trades)]
             keep == Cardinality({i \in 1..Len(init) : TimeKey(init[i]) <= TimeKey(t)})
         IN SubSeq(init, 1, keep) \o <<t>> \o SubSeq(init, keep + 1, Len(init))

\* A record none of whose fields is present
BlankRecord == [f \in CsvFields |-> Absent]

\* Single records that vary the P&L, value, fee and side fields
PnlRecords ==
    {[BlankRecord EXCEPT !.execTime = Num(1), !.closedPnl = c, !.realisedPnl = r,
                         !.execPnl = e, !.execValue = v, !.execFee = f, !.side = sd] :
        c \in {Absent, Null, Str(""), Str("abc"), Num(1)},
        r \in {Absent, Str(""), Str("abc"), Num(2)},
        e \in {Absent, Null, Num(3)},
        v \in {Absent, Str("abc"), Num(2)},
        f \in {Absent, Str(""), Str("abc"), Num(1)},
        sd \in {Absent, Str("Sell"), Str("sell"), Str("Buy")}}

\* Records that vary the execution time and the reported P&L
TimedRecords ==
    {[BlankRecord EXCEPT !.execTime = tm, !.closedPnl = c] :
        tm \in {Absent, Str(""), Num(1), Num(2)},
        c \in {Absent, Num(1), Num(0 - 1), Num(6)}}

\* The lists of records given to the writer
TradeLists ==
    {<<t>> : t \in PnlRecords} \cup (SeqsUpTo(TimedRecords, MaxRows) \ {<<>>})

\* What get_wallet_balance returns (0.0 also when the request fails)
Wallets == {0, 3, 10}

\* Lines 752-766: localTime from execTime, "" when there is no time field
LocalTime(t) == IF t.execTime = Absent \/ t.execTime = Str("") THEN None ELSE Some(TimeKey(t))

\* Lines 706-715: read the wallet balance, open the file for writing and
\* write the header
CsvOpen ==
    /\ pc = "csv_open"
    /\ \E balance \in Wallets :
         ex' = [ex EXCEPT !.final_balance = balance,
                          !.fieldnames = Keys(ex.trades[1])
                                           \cup {"netFee", "netPnl", "localTime", "balance"},
                          !.file = Some(<<>>)]
    /\ pc' = "csv_prepare"
    /\ UNCHANGED <<now, tick_cache, uuid_n, sent, po, w, pal, cx, hist, lats, sel, outcome, calc, thr, pt>>

\* Lines 717-750: sort, compute netFee and netPnl of every record, and the
\* starting balance
CsvPrepare ==
    /\ pc = "csv_prepare"
    /\ IF \E i \in 1..Len(ex.trades) : ~TimeKeyOk(ex.trades[i])
       THEN /\ pc' = "done"
            /\ outcome' = Raised([type |-> "ValueError"])
            /\ ex' = ex
       ELSE LET trades_sorted == SortedByTime(ex.trades)
                processed == [i \in 1..Len(trades_sorted) |->
                                [row |-> trades_sorted[i],
                                 netFee |-> NetFee(trades_sorted[i]),
                                 pnl |-> NetPnl(trades_sorted[i])]]
                total == FSum([i \in 1..Len(processed) |-> processed[i].pnl])
            IN /\ ex' = [ex EXCEPT !.processed = processed,
                                   !.running_balance = FSub(ex.final_balance, total),
                                   !.k = 1]
               /\ pc' = "csv_row"
               /\ outcome' = outcome
    /\ UNCHANGED <<now, tick_cache, uuid_n, sent, po, w, pal, cx, hist, lats, sel, calc, thr, pt>>

\* Lines 752-773: the next row; DictWriter refuses a row with a key that is
\* not among the field names
CsvWriteRow ==
    /\ pc = "csv_row"
    /\ IF ex.k > Len(ex.processed)
       THEN /\ pc' = "done"
            /\ outcome' = Returned(None)
            /\ ex' = ex
       ELSE LET p == ex.processed[ex.k]
                balance == FAdd(ex.running_balance, p.pnl)
                row == [src |-> p.row, netFee |-> p.netFee, netPnl |-> p.pnl,
                        localTime |-> LocalTime(p.row), balance |-> balance]
            IN IF Keys(p.row) \subseteq ex.fieldnames
               THEN /\ ex' = [ex EXCEPT !.running_balance = balance,
                                        !.file = Some(Append(Val(ex.file), row)),
                                        !.k = @ + 1]
                    /\ UNCHANGED <<pc, outcome>>
               ELSE /\ ex' = [ex EXCEPT !.running_balance = balance]
                    /\ pc' = "done"
                    /\ outcome' = Raised([type |-> "ValueError"])
    /\ UNCHANGED <<now, tick_cache, uuid_n, sent, po, w, pal, cx, hist, lats, sel, calc, thr, pt>>

\* The frame of one export: the records, the file as found (None when it
\* does not exist, else its rows) and the outcome of the fetch
ExFrame(fn, trades, file, fetched) ==
    [active |-> TRUE, fn |-> fn, trades |-> trades, file |-> file, file_before |-> file,
     fetched |-> fetched, reported |-> None, final_balance |-> 0, fieldnames |-> {},
     processed |-> <<>>, running_balance |-> 0, k |-> 0]

InitCsv ==
    /\ pc = "csv_open"
    /\ now = 0
    /\ lats = {0}
    /\ tick_cache = [s \in Symbols |-> None]
    /\ uuid_n = 0
    /\ sent = <<>>
    /\ po = NoPo /\ w = NoW /\ pal = NoPal /\ cx = NoCx /\ hist = NoHist /\ sel = NoSel
    /\ calc = NoCalc /\ thr = NoThr /\ pt = NoPt
    /\ \E trades \in TradeLists : ex = ExFrame("write", trades, None, None)
    /\ outcome = Running

CsvNext == CsvOpen \/ CsvPrepare \/ CsvWriteRow

SpecCsv == InitCsv /\ [][CsvNext]_vars

----------------------------------------------------------------------------
(* export_all_trade_history(trader) and export_all_delivery_history(trader) *)

ExportFns == {"export_all_trade_history", "export_all_delivery_history"}

\* A row of a CSV file left by an earlier export
OldRow == [src |-> BlankRecord, netFee |-> 0, netPnl |-> 0, localTime |-> None, balance |-> 0]

\* How list_trade_history / list_delivery_history can end
FetchOutcomes ==
    {Raised(ApiException(code, msgNums)) : code \in RetCodes, msgNums \in RetMsgNums}
      \cup {Raised([type |-> "HTTPError"])}
      \cup {Returned(trades) : trades \in SeqsUpTo(TimedRecords, 1)}

ExportCatchesNothing(exc) == FALSE

\* Lines 793 and 819: except ApiException
ExportCatches(exc) == exc.type = "ApiException"

\* Lines 789-799 and 815-825: fetch the history; report a failure or an
\* empty history and return, else go on to write the file
ExportFetch ==
    /\ pc = "ex_fetch"
    /\ \E fetched \in FetchOutcomes :
         IF fetched.kind = "raise"
         THEN IF ExportCatches(fetched.exc)
              THEN /\ ex' = [ex EXCEPT !.fetched = Some(fetched), !.reported = Some("failed")]
                   /\ pc' = "done"
                   /\ outcome' = Returned(None)
              ELSE /\ ex' = [ex EXCEPT !.fetched = Some(fetched)]
                   /\ pc' = "done"
                   /\ outcome' = fetched
         ELSE IF fetched.value = <<>>
              THEN /\ ex' = [ex EXCEPT !.fetched = Some(fetched), !.reported = Some("none found")]
                   /\ pc' = "done"
                   /\ outcome' = Returned(None)
              ELSE /\ ex' = [ex EXCEPT !.fetched = Some(fetched), !.trades = fetched.value]
                   /\ pc' = "csv_open"
                   /\ outcome' = outcome
    /\ UNCHANGED <<now, tick_cache, uuid_n, sent, po, w, pal, cx, hist, lats, sel, calc, thr, pt>>

InitExport ==
    /\ pc = "ex_fetch"
    /\ now = 0
    /\ lats = {0}
    /\ tick_cache = [s \in Symbols |-> None]
    /\ uuid_n = 0
    /\ sent = <<>>
    /\ po = NoPo /\ w = NoW /\ pal = NoPal /\ cx = NoCx /\ hist = NoHist /\ sel = NoSel
    /\ calc = NoCalc /\ thr = NoThr /\ pt = NoPt
    /\ \E fn \in ExportFns, file \in {None, Some(<<OldRow>>)} :
         ex = ExFrame(fn, <<>>, file, None)
    /\ outcome = Running

ExportNext == ExportFetch \/ CsvOpen \/ CsvPrepare \/ CsvWriteRow

SpecExport == InitExport /\ [][ExportNext]_vars

----------------------------------------------------------------------------
(* choose_symbol_by_risk(base_symbol, risk_usd, qty)                        *)

\* A symbol is held as the list of its parts, sym.split('-')
\* Expiry tokens and what _parse_expiry makes of them (lines 213-221): a
\* six-character token gets a leading '0', then strptime("%d%b%y"); the date
\* is written yyyymmdd, None when the token does not parse
ExpiryTokens == {"7JUN25", "07JUN25", "14JUN25", "21JUN25", "XX"}
parse_expiry(token) ==
    CASE token \in {"7JUN25", "07JUN25"} -> Some(20250607)
      [] token = "14JUN25" -> Some(20250614)
      [] token = "21JUN25" -> Some(20250621)
      [] OTHER -> None

\* datetime.max, written yyyymmdd
DatetimeMax == 99991231

\* str.upper on an option-type letter
Upper(s) == CASE s = "p" -> "P" [] s = "c" -> "C" [] OTHER -> s

\* Lines 290-296: expiry_from_symbol
expiry_from_symbol(sym) ==
    IF Len(sym) > 1 /\ parse_expiry(sym[2]) # None THEN Val(parse_expiry(sym[2]))
    ELSE DatetimeMax

\* Mark prices the ticker endpoint reports
Marks == {0, 1, 2}

\* Instruments the exchange lists, each with the mark price its ticker has
ListedSymbols ==
    {<<"BTC", e, "100", "P", "USDT">> : e \in {"7JUN25", "07JUN25", "14JUN25", "XX"}}
      \cup {<<"BTC", e, "100", "C", "USDT">> : e \in {"7JUN25", "14JUN25"}}
      \cup {<<"BTC", "14JUN25", "100", "p", "USDT">>, <<"BTC">>}
InstrumentRecords == [symbol : ListedSymbols, markPrice : Marks]
InstrumentLists == SeqsUpTo(InstrumentRecords, MaxInstruments)

\* The templates given as base_symbol
BaseSymbols ==
    {<<"BTC", "7JUN25", "100", "P", "USDT">>, <<"BTC", "21JUN25", "100", "p", "USDT">>,
     <<"BTC", "XX", "100", "C", "USDT">>, <<"BTC", "7JUN25", "100">>,
     <<"BTC", "7JUN25", "100", "P", "USDT", "X">>}

\* <<risk_usd, qty>> pairs; risk_usd / qty is exact for each of them
RiskQtys == {<<0, 1>>, <<1, 0>>, <<1, 1>>, <<4, 2>>}

TypeMatchesAlways(sym, opt_type) == TRUE

\* Lines 286-287: the instrument's option-type letter against the template's
TypeMatches(sym, opt_type) == Upper(sym[4]) = Upper(opt_type)

\* Lines 298-302: narrow to the template's expiry when it parses and is listed
SameExpiryOrAll(instruments, expiry_token) ==
    LET desired_expiry == parse_expiry(expiry_token)
        same_expiry == SelectSeq(instruments,
                          LAMBDA i : desired_expiry # None
                                       /\ expiry_from_symbol(i.symbol) = Val(desired_expiry))
    IN IF same_expiry # <<>> THEN same_expiry ELSE instruments

\* Line 304: instruments.sort(key=expiry), a stable sort
RECURSIVE SortedByExpiry(_)
SortedByExpiry(insts) ==
    IF insts = <<>> THEN <<>>
    ELSE LET init == SortedByExpiry(SubSeq(insts, 1, Len(insts) - 1))
             x == insts[Len(insts)]
             keep == Cardinality({i \in 1..Len(init) :
                        expiry_from_symbol(init[i].symbol) <= expiry_from_symbol(x.symbol)})
         IN SubSeq(init, 1, keep) \o <<x>> \o SubSeq(init, keep + 1, Len(init))

FirstExpiryAll(instruments) == instruments

\* Lines 304-306: the instruments that share the first expiry after sorting
FirstExpiry(instruments) ==
    LET sorted == SortedByExpiry(instruments)
        first_expiry == expiry_from_symbol(sorted[1].symbol)
    IN SelectSeq(sorted, LAMBDA i : expiry_from_symbol(i.symbol) = first_expiry)

CloserOrEqual(diff, best_diff) == best_diff = None \/ diff <= Val(best_diff)

\* Line 318: diff < best_diff, best_diff starting at infinity (None)
Closer(diff, best_diff) == best_diff = None \/ diff < Val(best_diff)

\* Lines 274-308: the early returns, the five-way unpacking of the template's
\* parts (a ValueError when there are more), the instrument list, the type
\* filter and the expiry cohort
SelStart ==
    /\ pc = "sel_start"
    /\ IF sel.risk_usd = 0 \/ sel.qty = 0 \/ Len(sel.base_symbol) < 5
       THEN /\ pc' = "done"
            /\ outcome' = Returned(<<sel.base_symbol, 0>>)
            /\ sel' = sel
       ELSE IF Len(sel.base_symbol) > 5
       THEN /\ pc' = "done"
            /\ outcome' = Raised([type |-> "ValueError"])
            /\ sel' = sel
       ELSE \E answer \in {[ok |-> FALSE]} \cup {[ok |-> TRUE, list |-> l] : l \in InstrumentLists} :
              LET opt_type == sel.base_symbol[4]
                  typed == SelectSeq(answer.list, LAMBDA i : TypeMatches(i.symbol, opt_type))
              IN IF ~answer.ok
                 THEN /\ pc' = "done"
                      /\ outcome' = Raised([type |-> "RuntimeError"])
                      /\ sel' = sel
                 ELSE IF answer.list = <<>>
                 THEN /\ pc' = "done"
                      /\ outcome' = Returned(<<sel.base_symbol, 0>>)
                      /\ sel' = [sel EXCEPT !.listed = Some(answer.list)]
                 ELSE IF \E n \in 1..Len(answer.list) : Len(answer.list[n].symbol) < 4
                 THEN /\ pc' = "done"
                      /\ outcome' = Raised([type |-> "IndexError"])
                      /\ sel' = [sel EXCEPT !.listed = Some(answer.list)]
                 ELSE IF typed = <<>>
                 THEN /\ pc' = "done"
                      /\ outcome' = Returned(<<sel.base_symbol, 0>>)
                      /\ sel' = [sel EXCEPT !.listed = Some(answer.list)]
                 ELSE /\ sel' = [sel EXCEPT
                                   !.listed = Some(answer.list),
                                   !.filtered = FirstExpiry(SameExpiryOrAll(typed, sel.base_symbol[2])),
                                   !.target = sel.risk_usd \div sel.qty,
                                   !.k = 1]
                      /\ pc' = "sel_ticker"
                      /\ outcome' = outcome
    /\ UNCHANGED <<now, tick_cache, uuid_n, sent, po, w, pal, cx, hist, lats, ex, calc, thr, pt>>

\* Lines 312-322: the ticker of the next instrument of the cohort; a closer
\* mark price replaces the best one; after the last, return the best
SelTicker ==
    /\ pc = "sel_ticker"
    /\ IF sel.k > Len(sel.filtered)
       THEN /\ pc' = "done"
            /\ outcome' = Returned(<<sel.best_sym, sel.best_price>>)
            /\ sel' = sel
       ELSE LET inst == sel.filtered[sel.k]
            IN \E ok \in BOOLEAN :
                 IF ~ok
                 THEN /\ pc' = "done"
                      /\ outcome' = Raised([type |-> "RuntimeError"])
                      /\ sel' = sel
                 ELSE LET price == inst.markPrice
                          diff == Abs(price - sel.target)
                      IN /\ sel' = IF Closer(diff, sel.best_diff)
                                   THEN [sel EXCEPT !.best_diff = Some(diff),
                                                    !.best_sym = inst.symbol,
                                                    !.best_price = price,
                                                    !.k = @ + 1]
                                   ELSE [sel EXCEPT !.k = @ + 1]
                         /\ UNCHANGED <<pc, outcome>>
    /\ UNCHANGED <<now, tick_cache, uuid_n, sent, po, w, pal, cx, hist, lats, ex, calc, thr, pt>>

InitSel ==
    /\ pc = "sel_start"
    /\ now = 0
    /\ lats = {0}
    /\ tick_cache = [s \in Symbols |-> None]
    /\ uuid_n = 0
    /\ sent = <<>>
    /\ po = NoPo /\ w = NoW /\ pal = NoPal /\ cx = NoCx /\ hist = NoHist /\ ex = NoEx
    /\ calc = NoCalc /\ thr = NoThr /\ pt = NoPt
    /\ \E base_symbol \in BaseSymbols, rq \in RiskQtys :
         sel = [active |-> TRUE, base_symbol |-> base_symbol, risk_usd |-> rq[1], qty |-> rq[2],
                listed |-> None, filtered |-> <<>>, target |-> 0, k |-> 0,
                best_sym |-> base_symbol, best_price |-> 0, best_diff |-> None]
    /\ outcome = Running

SelNext == SelStart \/ SelTicker

SpecSel == InitSel /\ [][SelNext]_vars

----------------------------------------------------------------------------
(* compute_order_qty(risk_usd, price, min_qty)                              *)

\* Quantities and the risk budget are held in thousandths (0.01 is 10), the
\* price in whole units; an argument is an optional number.
MaxRiskMilli == 40
MaxOrderPrice == 3

\* The default increment, MIN_ORDER_QTY = 0.01
MIN_ORDER_QTY == 10

QtyRisks == {None} \cup {Some(r) : r \in (0..MaxRiskMilli) \cup {100, 320}}
QtyPrices == {None} \cup {Some(p) : p \in (0..MaxOrderPrice) \cup {20, 100}}

\* Increments given as min_qty.  No multiple of any of them lies halfway
\* between two hundredths, where round(qty, 2) would depend on the binary
\* digits of the float.
MinQtys == {2, MIN_ORDER_QTY, 20}

\* A rounding that drops the fraction
RoundDown(num, den) == num \div den

\* Python's round(num / den) to an integer: to the nearest, halves to even
RoundHalfEven(num, den) ==
    LET f == num \div den
        twice == 2 * (num - f * den)
    IN IF twice > den \/ (twice = den /\ f % 2 = 1) THEN f + 1 ELSE f

\* Lines 260-270, in thousandths: risk / price raised to min_qty, rounded to
\* a whole number of increments, then round(qty, 2) to hundredths
compute_order_qty(risk_usd, price, min_qty) ==
    IF ~Truthy(risk_usd) \/ ~Truthy(price) THEN 0
    ELSE LET num == IF Val(risk_usd) < min_qty * Val(price)
                    THEN min_qty * Val(price) ELSE Val(risk_usd)
             steps == RoundHalfEven(num, Val(price) * min_qty)
             qty == steps * min_qty
         IN RoundHalfEven(qty, 10) * 10

\* The call and its return
ComputeOrderQty ==
    /\ pc = "qty_call"
    /\ calc' = [calc EXCEPT !.result =
                  Some(compute_order_qty(calc.risk_usd, calc.price, calc.min_qty))]
    /\ pc' = "done"
    /\ outcome' = Returned(compute_order_qty(calc.risk_usd, calc.price, calc.min_qty))
    /\ UNCHANGED <<now, tick_cache, uuid_n, sent, po, w, pal, cx, hist, lats, ex, sel, thr, pt>>

InitQty ==
    /\ pc = "qty_call"
    /\ now = 0
    /\ lats = {0}
    /\ tick_cache = [s \in Symbols |-> None]
    /\ uuid_n = 0
    /\ sent = <<>>
    /\ po = NoPo /\ w = NoW /\ pal = NoPal /\ cx = NoCx /\ hist = NoHist /\ ex = NoEx
    /\ sel = NoSel /\ thr = NoThr /\ pt = NoPt
    /\ \E risk_usd \in QtyRisks, price \in QtyPrices, min_qty \in MinQtys :
         calc = [active |-> TRUE, fn |-> "compute_order_qty", risk_usd |-> risk_usd,
                 price |-> price, min_qty |-> min_qty, result |-> None]
    /\ outcome = Running

QtyNext == ComputeOrderQty

SpecQty == InitQty /\ [][QtyNext]_vars

----------------------------------------------------------------------------
(* A process calling get_tick_size and round_to_tick, one call after another *)

MaxTickCalls == 2
MaxRoundPrice == 6
MaxRoundTick == 3

RoundPrices == 0..MaxRoundPrice
RoundTickAnswers ==
    TickFailures \cup {[ok |-> TRUE, tickSize |-> t] : t \in TickSizes(MaxRoundTick)}

\* Lines 201-209: round_to_tick(price, symbol) with the exchange's answer to
\* the instrument-info request it may make; [cache, asked, tick, out] with
\* tick the value get_tick_size returned
RoundToTick(cache, symbol, price, answer) ==
    LET got == get_tick_size(cache, symbol, answer)
    IN IF got.out.kind = "raise"
       THEN [cache |-> got.cache, asked |-> got.asked, tick |-> None, out |-> got.out]
       ELSE IF CheckedTick(got.out.value) = None
       THEN [cache |-> got.cache, asked |-> got.asked, tick |-> Some(got.out.value),
             out |-> Raised([type |-> "ValueError"])]
       ELSE [cache |-> got.cache, asked |-> got.asked, tick |-> Some(got.out.value),
             out |-> Returned(round_to_tick(price, Val(CheckedTick(got.out.value))))]

\* What the process remembers of a call: whether the instrument-info request
\* went out, tallied per symbol before and after the symbol's first value
TickCallDone(fn, symbol, price, res) ==
    LET requested == res.asked
        known == calc.first[symbol] # None
    IN /\ tick_cache' = res.cache
       /\ calc' = [calc EXCEPT
             !.n = @ + 1,
             !.late_requests[symbol] = IF requested /\ known THEN @ + 1 ELSE @,
             !.fetched[symbol] = IF requested /\ res.tick # None THEN @ + 1 ELSE @,
             !.first[symbol] = IF known THEN @ ELSE res.tick,
             !.prev = calc.last,
             !.last = Some([fn |-> fn, symbol |-> symbol, price |-> price,
                            cache_before |-> tick_cache, requested |-> requested,
                            tick |-> res.tick, out |-> res.out])]
       /\ outcome' = res.out

\* get_tick_size(symbol)
CallGetTickSize ==
    /\ pc = "tick_idle"
    /\ calc.n < MaxTickCalls
    /\ \E symbol \in Symbols, answer \in RoundTickAnswers :
         LET got == get_tick_size(tick_cache, symbol, answer)
         IN TickCallDone("get_tick_size", symbol, None,
                         [cache |-> got.cache, asked |-> got.asked,
                          tick |-> IF got.out.kind = "return" THEN Some(got.out.value)
                                   ELSE None,
                          out |-> got.out])
    /\ UNCHANGED <<pc, now, uuid_n, sent, po, w, pal, cx, hist, lats, ex, sel, thr, pt>>

\* round_to_tick(price, symbol)
CallRoundToTick ==
    /\ pc = "tick_idle"
    /\ calc.n < MaxTickCalls
    /\ \E symbol \in Symbols, price \in RoundPrices, answer \in RoundTickAnswers :
         TickCallDone("round_to_tick", symbol, Some(price),
                      RoundToTick(tick_cache, symbol, price, answer))
    /\ UNCHANGED <<pc, now, uuid_n, sent, po, w, pal, cx, hist, lats, ex, sel, thr, pt>>

InitTick ==
    /\ pc = "tick_idle"
    /\ now = 0
    /\ lats = {0}
    /\ tick_cache = [s \in Symbols |-> None]
    /\ uuid_n = 0
    /\ sent = <<>>
    /\ po = NoPo /\ w = NoW /\ pal = NoPal /\ cx = NoCx /\ hist = NoHist /\ ex = NoEx
    /\ sel = NoSel /\ thr = NoThr /\ pt = NoPt
    /\ calc = [active |-> TRUE, fn |-> "tick_calls", n |-> 0,
               late_requests |-> [s \in Symbols |-> 0],
               fetched |-> [s \in Symbols |-> 0],
               first |-> [s \in Symbols |-> None],
               prev |-> None, last |-> None]
    /\ outcome = Running

TickNext == CallGetTickSize \/ CallRoundToTick

SpecTick == InitTick /\ [][TickNext]_vars

----------------------------------------------------------------------------
(* get_tick_size called from several request threads of the web menu       *)

\* web_menu.start runs the Flask application, which serves each request in
\* a thread of its own; the threads share _tick_size_cache.  A thread is
\* at "check" (line 178), "fetch" (lines 180-196), "store" (line 197) or
\* has ended.
MaxThreads == 2
Threads == 1..MaxThreads

\* A cache entry written for every symbol at once
StoreTickEverywhere(cache, symbol, tick) == [s \in Symbols |-> Some(tick)]

\* Line 197: _tick_size_cache[symbol] = tick
StoreTick(cache, symbol, tick) == [cache EXCEPT ![symbol] = Some(tick)]

\* Lines 178-179: the cached value is returned, or the thread goes on to ask
ThrCheck(i) ==
    /\ pc = "threads"
    /\ thr.t[i].at = "check"
    /\ thr' = IF tick_cache[thr.t[i].symbol] # None
              THEN [thr EXCEPT !.t[i].at = "ended",
                               !.t[i].out = Returned(Val(tick_cache[thr.t[i].symbol]))]
              ELSE [thr EXCEPT !.t[i].at = "fetch"]
    /\ UNCHANGED <<pc, now, tick_cache, uuid_n, sent, po, w, pal, cx, hist, lats, ex, sel, calc, pt, outcome>>

\* Lines 180-196: the request and its answer; a failure raises
ThrFetch(i) ==
    /\ pc = "threads"
    /\ thr.t[i].at = "fetch"
    /\ \E answer \in TickAnswers :
         thr' = IF ~answer.ok
                THEN [thr EXCEPT !.t[i].at = "ended", !.t[i].fetches = @ + 1,
                                 !.t[i].out = Raised([type |-> answer.exc])]
                ELSE [thr EXCEPT !.t[i].at = "store", !.t[i].fetches = @ + 1,
                                 !.t[i].tick = Some(TickOf(answer)),
                                 !.reported[thr.t[i].symbol] = @ \cup {TickOf(answer)}]
    /\ UNCHANGED <<pc, now, tick_cache, uuid_n, sent, po, w, pal, cx, hist, lats, ex, sel, calc, pt, outcome>>

\* Lines 197-198: the tick is cached and returned
ThrStore(i) ==
    /\ pc = "threads"
    /\ thr.t[i].at = "store"
    /\ tick_cache' = StoreTick(tick_cache, thr.t[i].symbol, Val(thr.t[i].tick))
    /\ thr' = [thr EXCEPT !.t[i].at = "ended", !.t[i].out = Returned(Val(thr.t[i].tick))]
    /\ UNCHANGED <<pc, now, uuid_n, sent, po, w, pal, cx, hist, lats, ex, sel, calc, pt, outcome>>

\* The cache holds what earlier calls fetched; each thread calls
\* get_tick_size for a symbol
InitThreads ==
    /\ pc = "threads"
    /\ now = 0
    /\ lats = {0}
    /\ tick_cache \in [Symbols -> TickSizes(MaxTick)]
    /\ uuid_n = 0
    /\ sent = <<>>
    /\ po = NoPo /\ w = NoW /\ pal = NoPal /\ cx = NoCx /\ hist = NoHist /\ ex = NoEx
    /\ sel = NoSel /\ calc = NoCalc /\ pt = NoPt
    /\ \E symbols \in [Threads -> Symbols] :
         thr = [active |-> TRUE, cache0 |-> tick_cache,
                reported |-> [s \in Symbols |->
                                IF tick_cache[s] = None THEN {} ELSE {Val(tick_cache[s])}],
                t |-> [i \in Threads |->
                         [at |-> "check", symbol |-> symbols[i], fetches |-> 0,
                          tick |-> None, out |-> Running]]]
    /\ outcome = Running

ThreadsNext == \E i \in Threads : ThrCheck(i) \/ ThrFetch(i) \/ ThrStore(i)

SpecThreads == InitThreads /\ [][ThreadsNext]_vars

----------------------------------------------------------------------------
(* set_profit_targets(trader, multiplier)                                  *)

MaxTargets == 2

\* Records of /v5/position/list as set_profit_targets reads them: a long
\* position that gets a target, and ones that lack a field, have a zero in
\* it, or are short
TargetPositions ==
    {[symbol |-> Some(s), side |-> "Buy", size |-> sp[1], avgPrice |-> sp[2]]
       : s \in Symbols, sp \in {<<Some(1), Some(1)>>, <<Some(0 - 2), Some(2)>>}}
    \cup {[symbol |-> Some("BTC-A"), side |-> side, size |-> Some(1), avgPrice |-> Some(1)]
            : side \in {"buy", "Sell"}}
    \cup {[symbol |-> Some("BTC-A"), side |-> "Buy", size |-> size, avgPrice |-> Some(1)]
            : size \in {None, Some(0)}}
    \cup {[symbol |-> Some("BTC-A"), side |-> "Buy", size |-> Some(1), avgPrice |-> avg]
            : avg \in {None, Some(0)}}
    \cup {[symbol |-> None, side |-> "Buy", size |-> Some(1), avgPrice |-> Some(1)]}
TargetPositionLists == SeqsUpTo(TargetPositions, MaxTargets)
Multipliers == {1, 2}

\* pos.get(key, 0) read as a number
NumberOrZero(o) == IF o = None THEN 0 ELSE Val(o)

\* A test that lets every position with a symbol through
GetsTargetAnySide(pos) == pos.symbol # None

\* Lines 840-850: the position is not skipped by one of the three `continue`s
GetsTarget(pos) ==
    /\ Abs(NumberOrZero(pos.size)) > 0
    /\ Lower(pos.side) = "buy"
    /\ pos.symbol # None
    /\ NumberOrZero(pos.avgPrice) # 0

\* Lines 835-838: the positions are fetched; no position, nothing to do
PtStart ==
    /\ pc = "pt_start"
    /\ \E answer \in Answers(TargetPositionLists) :
         LET data == send_request(answer)
         IN IF data.kind = "raise"
            THEN pc' = "done" /\ outcome' = data /\ pt' = pt
            ELSE IF data.value = <<>>
            THEN /\ pc' = "done"
                 /\ outcome' = Returned(None)
                 /\ pt' = [pt EXCEPT !.positions = Some(data.value)]
            ELSE /\ pc' = "pt_loop"
                 /\ outcome' = outcome
                 /\ pt' = [pt EXCEPT !.positions = Some(data.value), !.k = 1]
    /\ UNCHANGED <<now, tick_cache, uuid_n, sent, po, w, pal, cx, hist, lats, ex, sel, calc, thr>>

\* Lines 839-853: the next position; a long one with a size, a symbol and an
\* average price gets place_order(symbol, "Sell", qty, target, "GTC", True)
PtLoop ==
    /\ pc = "pt_loop"
    /\ IF pt.k > Len(Val(pt.positions))
       THEN /\ pc' = "done"
            /\ outcome' = Returned(None)
            /\ UNCHANGED <<po, pt>>
       ELSE LET pos == Val(pt.positions)[pt.k]
                qty == Abs(NumberOrZero(pos.size))
                target == NumberOrZero(pos.avgPrice) * (pt.multiplier + 1)
            IN IF ~GetsTarget(pos)
               THEN /\ pt' = [pt EXCEPT !.k = @ + 1]
                    /\ UNCHANGED <<pc, po, outcome>>
               ELSE /\ po' = PlaceOrderFrame("target", Val(pos.symbol), "Sell", qty,
                                             Some(target), "GTC", TRUE)
                    /\ pt' = [pt EXCEPT !.calls = Append(@,
                                 [k |-> pt.k, symbol |-> Val(pos.symbol), side |-> "Sell",
                                  qty |-> qty, price |-> target, tif |-> "GTC",
                                  is_exit |-> TRUE])]
                    /\ pc' = "po_prepare"
                    /\ outcome' = outcome
    /\ UNCHANGED <<now, tick_cache, uuid_n, sent, w, pal, cx, hist, lats, ex, sel, calc, thr>>

InitTargets ==
    /\ pc = "pt_start"
    /\ now = 0
    /\ lats = {0}
    /\ tick_cache = [s \in Symbols |-> None]
    /\ uuid_n = 0
    /\ sent = <<>>
    /\ po = NoPo /\ w = NoW /\ pal = NoPal /\ cx = NoCx /\ hist = NoHist /\ ex = NoEx
    /\ sel = NoSel /\ calc = NoCalc /\ thr = NoThr
    /\ \E multiplier \in Multipliers :
         pt = [active |-> TRUE, multiplier |-> multiplier, positions |-> None, k |-> 0,
               calls |-> <<>>, outs |-> <<>>]
    /\ outcome = Running

TargetsNext == PtStart \/ PtLoop \/ PlaceOrderPrepare \/ PlaceOrderSend

SpecTargets == InitTargets /\ [][TargetsNext]_vars

----------------------------------------------------------------------------
(* journal_trades._greeks(option, s, k, t, sigma, qty)                      *)

\* Each numeric argument is missing or a number from -1 up; the Greeks are
\* kept as "number" (a finite float) or None
MaxGreekInput == 2
GreekInputs == {None} \cup {Some(x) : x \in (0 - 1)..MaxGreekInput}
AllGreeks(v) == [delta |-> v,  gamma |-> v, theta |-> v, vega |-> v]

\* Lines 33-48.  After the guard t and sigma are positive, so the only
\* operations that can fail are s / k (k = 0) and math.log(s / k) (s / k <= 0)
\* in line 35; gamma's divisor s * sigma * sqrt(t) is then non-zero.
greeks(option, s, k, t, sigma, qty) ==
    IF None \in {s, k, t, sigma, qty} \/ Val(t) <= 0 \/ Val(sigma) <= 0
    THEN Returned(AllGreeks(None))
    ELSE IF Val(k) = 0 THEN Raised([type |-> "ZeroDivisionError"])
    ELSE IF Val(s) * Val(k) <= 0 THEN Raised([type |-> "ValueError"])
    ELSE Returned(AllGreeks(Some("number")))

\* The call and its outcome
Greeks ==
    /\ pc = "greeks_call"
    /\ pc' = "done"
    /\ outcome' = greeks(calc.option, calc.s, calc.k, calc.t, calc.sigma, calc.qty)
    /\ UNCHANGED <<now, tick_cache, uuid_n, sent, po, w, pal, cx, hist, lats, ex, sel, calc, thr, pt>>

InitGreeks ==
    /\ pc = "greeks_call"
    /\ now = 0
    /\ lats = {0}
    /\ tick_cache = [x \in Symbols |-> None]
    /\ uuid_n = 0
    /\ sent = <<>>
    /\ po = NoPo /\ w = NoW /\ pal = NoPal /\ cx = NoCx /\ hist = NoHist /\ ex = NoEx
    /\ sel = NoSel /\ thr = NoThr /\ pt = NoPt
    /\ \E option \in {"CALL", "PUT"}, s \in GreekInputs, k \in GreekInputs,
          t \in GreekInputs, sigma \in GreekInputs, qty \in GreekInputs :
         calc = [active |-> TRUE, fn |-> "_greeks", option |-> option, s |-> s, k |-> k,
                 t |-> t, sigma |-> sigma, qty |-> qty]
    /\ outcome = Running

GreeksNext == Greeks

SpecGreeks == InitGreeks /\ [][GreeksNext]_vars

----------------------------------------------------------------------------
(* build_option_symbol and journal_trades._parse_symbol                     *)

\* What the trade form collects.  A strike is held in tenths (152.5 is
\* 1525), a date as yyyymmdd; a symbol is the list of its '-' separated
\* parts, the expiry token a record of its day, month name and year digits.
SymBases == {"btc", "BTC", "Sol"}
SymQuotes == {"usdt", "USDC"}
SymStrikes == {5, 1000, 1520, 1525, 1140000}
SymOptionTypes == {"put", "PUT", "P", "call", "Call", "c"}
SymExpiries ==
    {[day |-> 7, month |-> 6, year |-> 25], [day |-> 7, month |-> 6, year |-> 2025],
     [day |-> 12, month |-> 11, year |-> 24], [day |-> 1, month |-> 1, year |-> 2069]}

\* str.upper on the words in play
UpperWord(s) ==
    CASE s \in {"btc", "BTC"} -> "BTC"
      [] s = "Sol" -> "SOL"
      [] s = "usdt" -> "USDT"
      [] OTHER -> s

\* An option letter that is always P
OptionLetterPut(s) == "P"

\* Lines 232-234: the first letter of the upper-cased option type
OptionLetter(s) == IF s \in {"put", "PUT", "P"} THEN "P" ELSE "C"

\* strftime("%b").upper() and what strptime's %b makes of it
MonthTokens == <<"JAN", "FEB", "MAR", "APR", "MAY", "JUN",
                 "JUL", "AUG", "SEP", "OCT", "NOV", "DEC">>
MonthNumber(token) == CHOOSE m \in 1..12 : MonthTokens[m] = token

\* Lines 252-256: years below 100 are of this century; the token keeps the
\* day as written in decimal, the month's name and str(year)[2:]
ExpiryToken(expiry) ==
    LET year == IF expiry.year < 100 THEN expiry.year + 2000 ELSE expiry.year
    IN [day |-> expiry.day, mon |-> MonthTokens[expiry.month], yy |-> year % 100]

\* Lines 223-258
build_option_symbol(base, strike, option_type, expiry, quote) ==
    <<UpperWord(base), ExpiryToken(expiry), strike \div 10, OptionLetter(option_type),
      UpperWord(quote)>>

\* strptime(token, "%d%b%y"): two-digit years up to 68 are 20yy, later ones 19yy
Strptime(token) ==
    (IF token.yy <= 68 THEN 2000 + token.yy ELSE 1900 + token.yy) * 10000
      + MonthNumber(token.mon) * 100 + token.day

\* Lines 115-120 of journal_trades.py
parse_symbol(symbol) ==
    [base |-> symbol[1], expiry |-> Strptime(symbol[2]), strike |-> symbol[3] * 10,
     option_type |-> IF symbol[4] = "C" THEN "CALL" ELSE "PUT"]

BuildSymbol ==
    /\ pc = "sym_build"
    /\ calc' = [calc EXCEPT !.symbol = Some(build_option_symbol(
                   calc.base, calc.strike, calc.option_type, calc.expiry, calc.quote))]
    /\ pc' = "sym_parse"
    /\ UNCHANGED <<now, tick_cache, uuid_n, sent, po, w, pal, cx, hist, lats, ex, sel, thr, pt, outcome>>

ParseSymbol ==
    /\ pc = "sym_parse"
    /\ pc' = "done"
    /\ outcome' = Returned(parse_symbol(Val(calc.symbol)))
    /\ UNCHANGED <<now, tick_cache, uuid_n, sent, po, w, pal, cx, hist, lats, ex, sel, calc, thr, pt>>

InitSymbol ==
    /\ pc = "sym_build"
    /\ now = 0
    /\ lats = {0}
    /\ tick_cache = [x \in Symbols |-> None]
    /\ uuid_n = 0
    /\ sent = <<>>
    /\ po = NoPo /\ w = NoW /\ pal = NoPal /\ cx = NoCx /\ hist = NoHist /\ ex = NoEx
    /\ sel = NoSel /\ thr = NoThr /\ pt = NoPt
    /\ \E base \in SymBases, strike \in SymStrikes, option_type \in SymOptionTypes,
          expiry \in SymExpiries, quote \in SymQuotes :
         calc = [active |-> TRUE, fn |-> "build_option_symbol", base |-> base,
                 strike |-> strike, option_type |-> option_type, expiry |-> expiry,
                 quote |-> quote, symbol |-> None]
    /\ outcome = Running

SymbolNext == BuildSymbol \/ ParseSymbol

SpecSymbol == InitSymbol /\ [][SymbolNext]_vars

----------------------------------------------------------------------------
(* load_trade_config (optionstrader.py 67-88).  The file is either missing *)
(* or holds a JSON object whose values are exchange-record style fields.   *)

Bool(b) == [k |-> "bool", b |-> b]
ConfigFields == {"symbol", "side", "quantity", "risk_usd", "auto_trade", "api_key"}
RequiredFields == <<"symbol", "side", "quantity">>
ConfigValues(field) ==
    CASE field = "symbol"     -> {Absent, Null, Str(""), Str("BTC-A")}
      [] field = "side"       -> {Absent, Null, Str(""), Str("Buy")}
      [] field = "quantity"   -> {Absent, Null, Str(""), Num(0), Num(1)}
      [] field = "risk_usd"   -> {Absent, Null, Num(0), Num(5)}
      [] field = "auto_trade" -> {Absent, Null, Bool(FALSE), Bool(TRUE)}
      [] OTHER                -> {Absent, Str("K")}
ConfigFiles ==
    {None} \cup
    {Some([symbol |-> s, side |-> d, quantity |-> q, risk_usd |-> r,
           auto_trade |-> a, api_key |-> k]) :
       s \in ConfigValues("symbol"), d \in ConfigValues("side"),
       q \in ConfigValues("quantity"), r \in ConfigValues("risk_usd"),
       a \in ConfigValues("auto_trade"), k \in ConfigValues("api_key")}

\* dict[field] = value whatever the object held: not what setdefault does
SetAlways(cfg, field, value) == [cfg EXCEPT ![field] = value]

\* dict.setdefault(field, value)
SetDefault(cfg, field, value) ==
    IF cfg[field] = Absent THEN [cfg EXCEPT ![field] = value] ELSE cfg

\* "field not in cfg or cfg[field] in (None, '')", line 86
FieldMissing(cfg, field) == cfg[field] \in {Absent, Null, Str("")}

load_trade_config(file) ==
    IF file = None THEN Raised([type |-> "FileNotFoundError"])
    ELSE LET cfg == SetDefault(SetDefault(Val(file), "auto_trade", Bool(FALSE)), "risk_usd", Num(0))
             missing == {i \in 1..Len(RequiredFields) : FieldMissing(cfg, RequiredFields[i])}
             first == CHOOSE i \in missing : \A j \in missing : i <= j
         IN  IF missing # {}
             THEN Raised([type |-> "ValueError", field |-> RequiredFields[first]])
             ELSE Returned(cfg)

LoadTradeConfig ==
    /\ pc = "config_call"
    /\ calc' = [calc EXCEPT !.result = Some(load_trade_config(calc.file))]
    /\ pc' = "done"
    /\ outcome' = load_trade_config(calc.file)
    /\ UNCHANGED <<now, tick_cache, uuid_n, sent, po, w, pal, cx, hist, lats, ex, sel, thr, pt>>

InitConfig ==
    /\ pc = "config_call"
    /\ now = 0
    /\ lats = {0}
    /\ tick_cache = [s \in Symbols |-> None]
    /\ uuid_n = 0
    /\ sent = <<>>
    /\ po = NoPo /\ w = NoW /\ pal = NoPal /\ cx = NoCx /\ hist = NoHist /\ ex = NoEx
    /\ sel = NoSel /\ thr = NoThr /\ pt = NoPt
    /\ \E file \in ConfigFiles :
         calc = [active |-> TRUE, fn |-> "load_trade_config", file |-> file, result |-> None]
    /\ outcome = Running

ConfigNext == LoadTradeConfig

SpecConfig == InitConfig /\ [][ConfigNext]_vars

----------------------------------------------------------------------------
(* place_and_log called from several request threads of one server process *)
(* (alert_server.py 27 under waitress, web_menu.py under Flask), which     *)
(* share the wall clock, the tick cache and the directory of the audit     *)
(* files.  Each call is for a market entry, as the webhook makes it.  Time *)
(* is kept relative to the current UTC second: a sleeping call counts the  *)
(* seconds it still has to sleep, and the directory tells the file named   *)
(* after the current second (thr.cur) from the files named after earlier   *)
(* seconds, which no later write can open.  The call of                    *)
(* wait_for_order_fill is one step: its result is a non-empty list at any  *)
(* time, the empty list once the timeout has elapsed, or an exception.     *)

SleepSeconds == 2     \* time.sleep(2) in the fast loop
AuditCallers == {"req1", "req2"}
OrderIds == <<"O1", "O2">>

\* The answers explored for one request of a call: the transport failure,
\* one rejection, and every success
AuditAnswers(Payloads) ==
    {a \in Answers(Payloads) : a.http = "ok" /\ a.retCode # 0 =>
                                   a.retCode = 10002 /\ a.msgNums = <<>>}

AuditExecLists(oid) ==
    {<<>>, <<[orderId |-> oid, side |-> "Buy", execPrice |-> Some(1)]>>}
AuditDetailLists == {<<>>, <<[orderStatus |-> "Filled", avgPrice |-> Some(1), price |-> None]>>}
AuditTickAnswers == {a \in TickAnswers : a.ok => a.tickSize \in {Some(0), Some(1)}}

\* option_trade_log_{ts}.log with ts = strftime("%Y%m%d_%H%M%S") of the
\* current UTC time: the name of the file already written in this second
\* when there is one, else a name no file has had
TradeLogName(cur, created) == IF cur # None THEN Val(cur) ELSE created + 1

\* open(trade_log, 'w') and the writes of lines 592-596: the file then holds
\* the executions and, when there is one, the order record
WriteTradeLog(files, name, trades, order) ==
    [n \in DOMAIN files \cup {name} |->
        IF n = name THEN [trades |-> trades, order |-> order] ELSE files[n]]

AuCall(c) == thr.t[c]
AuEnd(c, out) == [thr EXCEPT !.t[c].at = "done", !.t[c].out = out, !.t[c].i = 0]

\* Line 574: the entry order, a market order; the exchange gives every order
\* it accepts an id of its own
AuEntry(c) ==
    /\ AuCall(c).at = "entry"
    /\ \E answer \in AuditAnswers({thr.accepted + 1}) :
         LET data == send_request(answer)
         IN /\ sent' = Append(sent, OrderBody("BTC-A", "Buy", 1, None, "GTC", FALSE,
                                              uuid4(uuid_n)))
            /\ uuid_n' = uuid_n + 1
            /\ IF data.kind = "raise"
               THEN thr' = AuEnd(c, data)
               ELSE thr' = [thr EXCEPT !.accepted = @ + 1,
                                       !.t[c].oid = Some(OrderIds[data.value]),
                                       !.t[c].at = "fast_sleep",
                                       !.t[c].rem = SleepSeconds]
    /\ UNCHANGED <<pc, now, tick_cache, po, w, pal, cx, hist, lats, ex, sel, calc, pt, outcome>>

\* Lines 578-582: the sleep is over, one fast poll
AuFastPoll(c) ==
    /\ AuCall(c).at = "fast_sleep"
    /\ AuCall(c).rem = 0
    /\ \E answer \in AuditAnswers(AuditExecLists(Val(AuCall(c).oid))) :
         LET data == send_request(answer)
             trades == get_trade_history(data.value, Val(AuCall(c).oid))
         IN IF data.kind = "raise"
            THEN thr' = AuEnd(c, data)
            ELSE IF trades # <<>>
            THEN thr' = [thr EXCEPT !.t[c].trades = trades, !.t[c].at = "detail",
                                    !.t[c].i = 0]
            ELSE IF AuCall(c).i + 1 < FastPolls
            THEN thr' = [thr EXCEPT !.t[c].i = @ + 1, !.t[c].rem = SleepSeconds]
            ELSE thr' = [thr EXCEPT !.t[c].i = 0, !.t[c].at = "wait",
                                    !.t[c].rem = DefaultTimeout]
    /\ UNCHANGED <<pc, now, tick_cache, uuid_n, sent, po, w, pal, cx, hist, lats, ex, sel,
                   calc, pt, outcome>>

\* Lines 583-584: wait_for_order_fill(symbol, oid) with its default timeout
AuWait(c) ==
    /\ AuCall(c).at = "wait"
    /\ \E res \in {"raise", "hit", "timeout"} :
         CASE res = "raise" ->
                thr' = [AuEnd(c, Raised([type |-> "HTTPError"])) EXCEPT !.t[c].rem = 0]
           [] res = "hit" ->
                thr' = [thr EXCEPT !.t[c].at = "detail", !.t[c].rem = 0,
                          !.t[c].trades = <<[orderId |-> Val(AuCall(c).oid), side |-> "Buy",
                                             execPrice |-> Some(1)]>>]
           [] OTHER ->
                /\ AuCall(c).rem = 0
                /\ thr' = [thr EXCEPT !.t[c].at = "detail"]
    /\ UNCHANGED <<pc, now, tick_cache, uuid_n, sent, po, w, pal, cx, hist, lats, ex, sel,
                   calc, pt, outcome>>

\* Lines 587-600: the order detail, the audit file, the return of an unfilled
\* order
AuDetailLog(c) ==
    /\ AuCall(c).at = "detail"
    /\ \E answer \in AuditAnswers(AuditDetailLists) :
         LET data == send_request(answer)
             order == IF data.value # <<>> THEN Some(data.value[1]) ELSE None
             name == TradeLogName(thr.cur, thr.created)
             logged == [thr EXCEPT !.files = WriteTradeLog(@, name, AuCall(c).trades, order),
                                   !.cur = Some(name),
                                   !.created = IF thr.cur = None THEN @ + 1 ELSE @,
                                   !.t[c].order = order,
                                   !.t[c].trade_log = Some(name)]
         IN IF data.kind = "raise"
            THEN thr' = AuEnd(c, data)
            ELSE IF NotFilled(AuCall(c).trades)
            THEN thr' = [logged EXCEPT !.t[c].at = "done",
                                       !.t[c].out = Returned([trades |-> <<>>,
                                                              trade_log |-> Some(name)])]
            ELSE thr' = [logged EXCEPT !.t[c].at = "exit"]
    /\ UNCHANGED <<pc, now, tick_cache, uuid_n, sent, po, w, pal, cx, hist, lats, ex, sel,
                   calc, pt, outcome>>

\* Lines 602-618: the entry price, the target and the exit order
AuExit(c) ==
    /\ AuCall(c).at = "exit"
    /\ LET price == InferEntryPrice(None, AuCall(c).trades, AuCall(c).order, "Buy")
           back == Returned([trades |-> AuCall(c).trades, trade_log |-> AuCall(c).trade_log])
       IN IF price = None
          THEN thr' = AuEnd(c, back) /\ UNCHANGED <<tick_cache, uuid_n, sent>>
          ELSE \E tick_answer \in AuditTickAnswers, answer \in AuditAnswers({"O3"}) :
                 LET got == get_tick_size(tick_cache, "BTC-A", tick_answer)
                     tick == IF got.out.kind = "raise" THEN None
                             ELSE CheckedTick(got.out.value)
                     data == send_request(answer)
                 IN /\ tick_cache' = got.cache
                    /\ IF got.out.kind = "raise"
                       THEN thr' = AuEnd(c, got.out) /\ UNCHANGED <<uuid_n, sent>>
                       ELSE IF tick = None
                       THEN /\ thr' = AuEnd(c, Raised([type |-> "ValueError"]))
                            /\ UNCHANGED <<uuid_n, sent>>
                       ELSE /\ sent' = Append(sent,
                                  OrderBody("BTC-A", ExitSide("Buy"), 1,
                                      Some(round_to_tick(Val(price) * TargetMultiple, Val(tick))),
                                      "GTC", TRUE, uuid4(uuid_n)))
                            /\ uuid_n' = uuid_n + 1
                            /\ thr' = AuEnd(c, IF data.kind = "raise" THEN data ELSE back)
    /\ UNCHANGED <<pc, now, po, w, pal, cx, hist, lats, ex, sel, calc, pt, outcome>>

\* The wall clock enters the next second while a call is in progress
AuTick ==
    /\ \E c \in AuditCallers : AuCall(c).at # "done"
    /\ thr' = [thr EXCEPT !.cur = None,
                          !.t = [c \in AuditCallers |->
                                   [@[c] EXCEPT !.rem = IF @ > 0 THEN @ - 1 ELSE 0]]]
    /\ UNCHANGED <<pc, now, tick_cache, uuid_n, sent, po, w, pal, cx, hist, lats, ex, sel, calc,
                   pt, outcome>>

InitAudit ==
    /\ pc = "serving"
    /\ now = 0
    /\ lats = {0}
    /\ tick_cache = [s \in Symbols |-> None]
    /\ uuid_n = 0
    /\ sent = <<>>
    /\ po = NoPo /\ w = NoW /\ pal = NoPal /\ cx = NoCx /\ hist = NoHist /\ ex = NoEx
    /\ sel = NoSel /\ calc = NoCalc /\ pt = NoPt
    /\ thr = [active |-> TRUE, fn |-> "place_and_log", accepted |-> 0, created |-> 0,
              cur |-> None, files |-> <<>>,
              t |-> [c \in AuditCallers |->
                        [at |-> "entry", oid |-> None, i |-> 0, rem |-> 0, trades |-> <<>>,
                         order |-> None, trade_log |-> None, out |-> Running]]]
    /\ outcome = Running

AuditNext ==
    \/ AuTick
    \/ \E c \in AuditCallers :
          AuEntry(c) \/ AuFastPoll(c) \/ AuWait(c) \/ AuDetailLog(c) \/ AuExit(c)

SpecAudit == InitAudit /\ [][AuditNext]_vars

----------------------------------------------------------------------------
(* get_wallet_balance (optionstrader.py 368-380).  Balances are in          *)
(* hundredths of a USDT.                                                   *)

WalletBalances == {0, 999, 1000}
CoinRecords == [coin : {"USDT"}, walletBalance : {None} \cup {Some(b) : b \in WalletBalances}]
               \cup {[coin |-> "BTC", walletBalance |-> Some(1000)]}
CoinLists == {<<>>} \cup {<<c>> : c \in CoinRecords}
             \cup {<<[coin |-> "BTC", walletBalance |-> Some(1000)],
                     [coin |-> "USDT", walletBalance |-> Some(999)]>>}
WalletAnswers == Answers(CoinLists)

\* A wallet reader that takes the first coin of the answer, whatever it is
get_wallet_balance_first_coin(answer) ==
    LET data == send_request(answer)
    IN IF data.kind = "raise" \/ data.value = <<>> THEN 0
       ELSE IF data.value[1].walletBalance = None THEN 0
       ELSE Val(data.value[1].walletBalance)

\* The walletBalance of the first USDT coin of the answer (0 when the field
\* is missing); 0.0 when the request raises or no USDT coin is listed
get_wallet_balance(answer) ==
    LET data == send_request(answer)
    IN IF data.kind = "raise" THEN 0
       ELSE LET usdt == {i \in DOMAIN data.value : data.value[i].coin = "USDT"}
                first == CHOOSE i \in usdt : \A j \in usdt : i <= j
            IN IF usdt = {} THEN 0
               ELSE IF data.value[first].walletBalance = None THEN 0
               ELSE Val(data.value[first].walletBalance)

----------------------------------------------------------------------------
(* web_menu.py: the /demo_balance and /trade pages over trade_config.json. *)
(* The file is missing or holds a JSON object; calc.file is the file and   *)
(* calc.page the page the last request was answered with.                  *)

MaxRequests == 3   \* requests of one session of the web menu

MenuValues(field) ==
    IF field = "demo_balance" THEN {Absent, Num(0), Num(12345)}
    ELSE {Absent, Str(""), Str("K")}
MenuFiles ==
    {None} \cup {Some([demo_balance |-> d, api_key |-> k, api_secret |-> s]) :
                    d \in MenuValues("demo_balance"), k \in MenuValues("api_key"),
                    s \in MenuValues("api_secret")}

\* float(bal_str) for the texts typed into the balance field: the value in
\* hundredths, None for the ValueError
BalanceTexts == {"", "abc", "123.45", "50"}
ParseBalance(text) ==
    CASE text = "123.45" -> Some(12345)
      [] text = "50" -> Some(5000)
      [] OTHER -> None

\* cfg.get(field, default) on the loaded object
MenuGet(cfg, field, default) == IF cfg[field] = Absent THEN default ELSE cfg[field]

\* Python truthiness of a config value
MenuTruthy(v) == v \notin {Absent, Null, Str(""), Num(0), Bool(FALSE)}

MenuDone(page) ==
    /\ pc' = IF calc.n + 1 < MaxRequests THEN "menu_idle" ELSE "done"
    /\ outcome' = Returned(page)
    /\ UNCHANGED <<now, tick_cache, uuid_n, sent, po, w, pal, cx, hist, lats, ex, sel, thr, pt>>

\* Lines 96-112: POST /demo_balance
DemoBalancePost ==
    /\ pc = "menu_idle"
    /\ \E text \in BalanceTexts :
         LET new_bal == ParseBalance(text)
             cfg == IF calc.file = None
                    THEN [demo_balance |-> Absent, api_key |-> Absent, api_secret |-> Absent]
                    ELSE Val(calc.file)
             page == IF new_bal = None
                     THEN [route |-> "/demo_balance", text |-> "Invalid value; balance unchanged.",
                           balance |-> None]
                     ELSE [route |-> "/demo_balance", text |-> "Demo balance set to",
                           balance |-> Some(Val(new_bal))]
         IN /\ calc' = [calc EXCEPT
                          !.file = IF new_bal = None THEN @
                                   ELSE Some([cfg EXCEPT !.demo_balance = Num(Val(new_bal))]),
                          !.page = Some(page), !.n = @ + 1]
            /\ MenuDone(page)

\* Lines 113-132: GET /demo_balance
DemoBalanceGet ==
    /\ pc = "menu_idle"
    /\ LET bal == IF calc.file = None THEN Num(0)
                  ELSE MenuGet(Val(calc.file), "demo_balance", Num(0))
           page == [route |-> "/demo_balance", text |-> "New Balance:", balance |-> Some(bal.n)]
       IN /\ calc' = [calc EXCEPT !.page = Some(page), !.n = @ + 1]
          /\ MenuDone(page)

\* Lines 177-226: GET /trade; the balance shown is 0.0 unless the file holds
\* both credentials, and then it is the wallet balance of the exchange
TradeGet ==
    /\ pc = "menu_idle"
    /\ \E answer \in WalletAnswers :
         LET api_key == IF calc.file = None THEN Str("")
                        ELSE MenuGet(Val(calc.file), "api_key", Str(""))
             api_secret == IF calc.file = None THEN Str("")
                           ELSE MenuGet(Val(calc.file), "api_secret", Str(""))
             asked == MenuTruthy(api_key) /\ MenuTruthy(api_secret)
             balance == IF asked THEN get_wallet_balance(answer) ELSE 0
             page == [route |-> "/trade", text |-> "Current Balance:", balance |-> Some(balance)]
         IN /\ calc' = [calc EXCEPT !.page = Some(page), !.n = @ + 1,
                                    !.wallet_requests = IF asked THEN @ + 1 ELSE @]
            /\ MenuDone(page)

InitMenu ==
    /\ pc = "menu_idle"
    /\ now = 0
    /\ lats = {0}
    /\ tick_cache = [s \in Symbols |-> None]
    /\ uuid_n = 0
    /\ sent = <<>>
    /\ po = NoPo /\ w = NoW /\ pal = NoPal /\ cx = NoCx /\ hist = NoHist /\ ex = NoEx
    /\ sel = NoSel /\ thr = NoThr /\ pt = NoPt
    /\ \E file \in MenuFiles :
         calc = [active |-> TRUE, fn |-> "web_menu", file |-> file, page |-> None, n |-> 0,
                 wallet_requests |-> 0]
    /\ outcome = Running

MenuNext == DemoBalancePost \/ DemoBalanceGet \/ TradeGet

SpecMenu == InitMenu /\ [][MenuNext]_vars

----------------------------------------------------------------------------
(* execute_trade_from_cfg(cfg) (optionstrader.py 620-658)                   *)

MIN_BALANCE_THRESHOLD == 1000   \* 10.0 USDT, in hundredths

\* The environment (BYBIT_API_KEY, BYBIT_API_SECRET) and the credentials of
\* the configuration
Environments == {[key |-> None, secret |-> None], [key |-> Some("EK"), secret |-> None]}
ConfigCredentials == {[api_key |-> Absent, api_secret |-> Absent],
                      [api_key |-> Str(""), api_secret |-> Str("S")],
                      [api_key |-> Str("K"), api_secret |-> Str("S")]}

\* Lines 90-94: os.getenv(name) or cfg.get(field, "")
Credential(env_value, cfg_value) ==
    IF env_value # None /\ Val(env_value) # "" THEN Val(env_value)
    ELSE IF cfg_value = Absent THEN "" ELSE cfg_value.s

\* A test that lets every balance above zero pass
BelowThresholdZeroOnly(balance) == balance <= 0

\* Line 634: balance < MIN_BALANCE_THRESHOLD
BelowThreshold(balance) == balance < MIN_BALANCE_THRESHOLD

\* Lines 622-630: read the configuration and the credentials
ExecStart ==
    /\ pc = "exec_start"
    /\ LET key == Credential(calc.env.key, calc.cfg.api_key)
           secret == Credential(calc.env.secret, calc.cfg.api_secret)
       IN IF key = "" \/ secret = ""
          THEN /\ pc' = "done"
               /\ outcome' = Raised([type |-> "RuntimeError"])
               /\ calc' = [calc EXCEPT !.stage = "ended"]
          ELSE /\ pc' = "exec_balance"
               /\ outcome' = outcome
               /\ calc' = [calc EXCEPT !.key = Some(key), !.secret = Some(secret)]
    /\ UNCHANGED <<now, tick_cache, uuid_n, sent, po, w, pal, cx, hist, lats, ex, sel, thr, pt>>

\* Lines 631-640: the wallet balance, the abort on a low balance, else the
\* call of place_and_log
ExecBalance ==
    /\ pc = "exec_balance"
    /\ \E answer \in WalletAnswers :
         LET balance == get_wallet_balance(answer)
         IN IF BelowThreshold(balance)
            THEN /\ calc' = [calc EXCEPT !.retrieved = Some(send_request(answer).kind = "return"),
                                         !.balance = Some(balance),
                                         !.report = <<"Balance", "Insufficient balance => abort">>,
                                         !.stage = "ended"]
                 /\ pc' = "done"
                 /\ outcome' = Returned(None)
                 /\ pal' = pal
            ELSE /\ calc' = [calc EXCEPT !.retrieved = Some(TRUE), !.balance = Some(balance),
                                         !.stage = "place_and_log"]
                 /\ pal' = [active |-> TRUE, symbol |-> calc.cfg.symbol, side |-> calc.cfg.side,
                            qty |-> calc.cfg.quantity, limit_price |-> calc.cfg.limit_price,
                            tif |-> "GTC", oid |-> None, trades |-> <<>>, i |-> 0,
                            order |-> None, trade_log |-> None,
                            entry_price |-> calc.cfg.limit_price, detail_fetched |-> FALSE]
                 /\ pc' = "pal_entry"
                 /\ outcome' = outcome
    /\ UNCHANGED <<now, tick_cache, uuid_n, sent, po, w, cx, hist, lats, ex, sel, thr, pt>>

\* Lines 641-658 once place_and_log has ended: its exception leaves the
\* function; else the ticker is fetched, the exposures of the greeks it
\* carries are tabulated, the report is written and the log goes to Telegram
ExecReport ==
    /\ pc = "done"
    /\ calc.active /\ calc.fn = "execute_trade_from_cfg" /\ calc.stage = "place_and_log"
    /\ IF outcome.kind = "raise"
       THEN /\ calc' = [calc EXCEPT !.stage = "ended"]
            /\ outcome' = outcome
       ELSE \E ticker \in {"HTTPError", "RuntimeError", "ok"} :
              IF ticker # "ok"
              THEN /\ calc' = [calc EXCEPT !.stage = "ended"]
                   /\ outcome' = Raised([type |-> ticker])
              ELSE /\ calc' = [calc EXCEPT !.stage = "ended",
                                 !.report = <<"Balance", "Placing", "Trade log", "Ticker Data",
                                              "Greek Exposures">>]
                   /\ outcome' = Returned(None)
    /\ UNCHANGED <<pc, now, tick_cache, uuid_n, sent, po, w, pal, cx, hist, lats, ex, sel, thr, pt>>

InitExec ==
    /\ pc = "exec_start"
    /\ now = 0
    /\ lats = {0}
    /\ tick_cache = [s \in Symbols |-> None]
    /\ uuid_n = 0
    /\ sent = <<>>
    /\ po = NoPo /\ w = NoW /\ pal = NoPal /\ cx = NoCx /\ hist = NoHist /\ ex = NoEx
    /\ sel = NoSel /\ thr = NoThr /\ pt = NoPt
    /\ \E env \in Environments, cred \in ConfigCredentials, price \in {None, Some(1)} :
         calc = [active |-> TRUE, fn |-> "execute_trade_from_cfg", stage |-> "start",
                 env |-> env,
                 cfg |-> [symbol |-> "BTC-A", side |-> "Buy", quantity |-> 1,
                          limit_price |-> price, api_key |-> cred.api_key,
                          api_secret |-> cred.api_secret],
                 key |-> None, secret |-> None, retrieved |-> None, balance |-> None,
                 report |-> <<>>]
    /\ outcome = Running

ExecNext ==
    \/ ExecStart \/ ExecBalance \/ ExecReport
    \/ PalEntry \/ PlaceOrderPrepare \/ PlaceOrderSend \/ PalFastPoll
    \/ WaitStart \/ WaitCheck \/ WaitHist1 \/ WaitHist2 \/ WaitDetail \/ WaitSleep
    \/ PalDetailLog \/ PalInfer \/ PalTarget

SpecExec == InitExec /\ [][ExecNext]_vars

----------------------------------------------------------------------------
(* alert_server.py: the /webhook handler (lines 7-31).  Order quantities   *)
(* are in thousandths of a contract, as in compute_order_qty.              *)

HookTemplate == "BTC-7JUN25-100-P-USDT"

\* symbol.split('-') for the symbol of the configuration
SplitSymbol(name) ==
    IF name = HookTemplate THEN <<"BTC", "7JUN25", "100", "P", "USDT">> ELSE <<name>>

HookSymbols == ListedSymbols \cup {SplitSymbol(HookTemplate)}

\* trade_config.json as the handler finds it, and the JSON body of the alert
HookFiles ==
    {Some([symbol |-> Str(HookTemplate), side |-> Str("Buy"), quantity |-> q,
           risk_usd |-> r, auto_trade |-> a, api_key |-> Str("K")]) :
       q \in {Absent, Num(1)}, r \in {Absent, Num(1)},
       a \in {Absent, Null, Bool(FALSE), Bool(TRUE)}}
HookBodies == {[side |-> Str("Sell")]}

\* The instrument lists the exchange serves to the handler
HookInstrumentLists ==
    {l \in InstrumentLists :
        \A n \in 1..Len(l) : l[n].symbol \in {<<"BTC", "07JUN25", "100", "P", "USDT">>,
                                               <<"BTC", "14JUN25", "100", "C", "USDT">>}}
HookListing == sel'.listed # None => Val(sel'.listed) \in HookInstrumentLists

\* A handler that recomputes the quantity whatever the budget and the price
HookRecomputesAlways(risk_usd, price) == TRUE

\* Line 23: if risk_usd and price
HookRecomputes(risk_usd, price) == risk_usd # 0 /\ price # 0

HookEnd(out) ==
    /\ pc' = "done"
    /\ outcome' = out
    /\ calc' = [calc EXCEPT !.stage = "ended"]

\* Lines 9-18: load the configuration, answer at once unless auto_trade is
\* set, else take side, symbol, budget and quantity; with a budget the
\* symbol is chosen by choose_symbol_by_risk
HookStart ==
    /\ pc = "hook_start"
    /\ LET loaded == load_trade_config(calc.file)
           cfg == loaded.value
           risk_usd == cfg.risk_usd.n
           symbol == SplitSymbol(cfg.symbol.s)
       IN IF loaded.kind = "raise"
          THEN HookEnd(loaded) /\ sel' = sel
          ELSE IF ~MenuTruthy(cfg.auto_trade)
          THEN HookEnd(Returned([message |-> "auto trade disabled"])) /\ sel' = sel
          ELSE /\ outcome' = outcome
               /\ IF risk_usd # 0
                  THEN /\ pc' = "sel_start"
                       /\ sel' = [active |-> TRUE, base_symbol |-> symbol,
                                  risk_usd |-> risk_usd, qty |-> cfg.quantity.n,
                                  listed |-> None, filtered |-> <<>>, target |-> 0, k |-> 0,
                                  best_sym |-> symbol, best_price |-> 0, best_diff |-> None]
                  ELSE pc' = "hook_price" /\ sel' = sel
               /\ calc' = [calc EXCEPT
                             !.stage = IF risk_usd # 0 THEN "choose" ELSE "price",
                             !.side = IF calc.body.side = Absent THEN cfg.side.s
                                      ELSE calc.body.side.s,
                             !.symbol = symbol,
                             !.risk_usd = risk_usd,
                             !.qty = cfg.quantity.n * 1000,
                             !.called = risk_usd # 0]
    /\ UNCHANGED <<now, tick_cache, uuid_n, sent, po, w, pal, cx, hist, lats, ex, thr, pt>>

\* Line 19 once choose_symbol_by_risk has ended: its exception leaves the
\* handler, else its symbol and price are taken
HookChosen ==
    /\ pc = "done"
    /\ calc.active /\ calc.fn = "webhook" /\ calc.stage = "choose"
    /\ sel' = NoSel
    /\ IF outcome.kind = "raise"
       THEN /\ calc' = [calc EXCEPT !.stage = "ended"]
            /\ UNCHANGED <<pc, outcome>>
       ELSE /\ calc' = [calc EXCEPT !.stage = "price", !.symbol = outcome.value[1],
                                    !.price = outcome.value[2]]
            /\ pc' = "hook_price"
            /\ outcome' = Running
    /\ UNCHANGED <<now, tick_cache, uuid_n, sent, po, w, pal, cx, hist, lats, ex, thr, pt>>

\* Lines 20-22: without a price the mark price of the symbol's ticker is read
HookPrice ==
    /\ pc = "hook_price"
    /\ IF calc.price # 0
       THEN /\ pc' = "hook_place"
            /\ UNCHANGED <<calc, outcome>>
       ELSE \E ticker \in {[ok |-> FALSE, exc |-> e] : e \in {"HTTPError", "RuntimeError"}}
                          \cup {[ok |-> TRUE, markPrice |-> m] : m \in Marks} :
              IF ~ticker.ok
              THEN /\ pc' = "done"
                   /\ outcome' = Raised([type |-> ticker.exc])
                   /\ calc' = [calc EXCEPT !.stage = "ended", !.called = TRUE]
              ELSE /\ pc' = "hook_place"
                   /\ outcome' = outcome
                   /\ calc' = [calc EXCEPT !.price = ticker.markPrice, !.called = TRUE]
    /\ UNCHANGED <<now, tick_cache, uuid_n, sent, po, w, pal, cx, hist, lats, ex, sel, thr, pt>>

\* Lines 23-27: the quantity is recomputed from budget and price when both
\* are there, and place_and_log is called for a market entry; the price is
\* not used after that
HookPlace ==
    /\ pc = "hook_place"
    /\ LET qty == IF HookRecomputes(calc.risk_usd, calc.price)
                  THEN compute_order_qty(Some(calc.risk_usd * 1000), Some(calc.price),
                                         MIN_ORDER_QTY)
                  ELSE calc.qty
       IN /\ calc' = [calc EXCEPT !.stage = "place_and_log", !.qty = qty, !.price = 0]
          /\ pal' = [active |-> TRUE, symbol |-> calc.symbol, side |-> calc.side,
                     qty |-> qty, limit_price |-> None, tif |-> "GTC", oid |-> None,
                     trades |-> <<>>, i |-> 0, order |-> None, trade_log |-> None,
                     entry_price |-> None, detail_fetched |-> FALSE]
          /\ pc' = "pal_entry"
    /\ UNCHANGED <<now, tick_cache, uuid_n, sent, po, w, cx, hist, lats, ex, sel, outcome, thr,
                   pt>>

\* Lines 27-31 once place_and_log has ended: its exception leaves the
\* handler, else the log goes to Telegram and the answer is 'order sent'
HookReply ==
    /\ pc = "done"
    /\ calc.active /\ calc.fn = "webhook" /\ calc.stage = "place_and_log"
    /\ calc' = [calc EXCEPT !.stage = "ended"]
    /\ outcome' = IF outcome.kind = "raise" THEN outcome
                  ELSE Returned([message |-> "order sent"])
    /\ UNCHANGED <<pc, now, tick_cache, uuid_n, sent, po, w, pal, cx, hist, lats, ex, sel, thr, pt>>

InitHook ==
    /\ pc = "hook_start"
    /\ now = 0
    /\ lats = {0}
    /\ tick_cache = [s \in HookSymbols |-> None]
    /\ uuid_n = 0
    /\ sent = <<>>
    /\ po = NoPo /\ w = NoW /\ pal = NoPal /\ cx = NoCx /\ hist = NoHist /\ ex = NoEx
    /\ sel = NoSel /\ thr = NoThr /\ pt = NoPt
    /\ \E file \in HookFiles, body \in HookBodies :
         calc = [active |-> TRUE, fn |-> "webhook", stage |-> "start", file |-> file,
                 body |-> body, side |-> "", symbol |-> <<>>, risk_usd |-> 0, qty |-> 0,
                 price |-> 0, called |-> FALSE]
    /\ outcome = Running

HookNext ==
    \/ HookStart \/ (SelStart /\ HookListing) \/ SelTicker \/ HookChosen \/ HookPrice
    \/ HookPlace
    \/ HookReply
    \/ PalEntry \/ PlaceOrderPrepare \/ PlaceOrderSend \/ PalFastPoll
    \/ WaitStart \/ WaitCheck \/ WaitHist1 \/ WaitHist2 \/ WaitDetail \/ WaitSleep
    \/ PalDetailLog \/ PalInfer \/ PalTarget

SpecHook == InitHook /\ [][HookNext]_vars

----------------------------------------------------------------------------
(* get_trade_history(symbol, order_id) called on its own, next to the     *)
(* calls place_and_log and wait_for_order_fill make of it                  *)

\* The order ids a caller polls for: the two with executions and one without
PolledOrderIds == {NewOrderId, "O2", "O3"}

\* Lines 399-404: GET /v5/execution/list, then the filter on orderId
TradeHistoryCall ==
    /\ pc = "gth_call"
    /\ \E answer \in Answers(ExecLists) :
         LET data == send_request(answer)
         IN /\ calc' = [calc EXCEPT !.answer = Some(answer)]
            /\ outcome' = IF data.kind = "raise" THEN data
                          ELSE Returned(get_trade_history(data.value, calc.order_id))
    /\ pc' = "done"
    /\ UNCHANGED <<now, tick_cache, uuid_n, sent, po, w, pal, cx, hist, lats, ex, sel, thr, pt>>

InitTradeHistory ==
    /\ pc = "gth_call"
    /\ now = 0
    /\ lats = {0}
    /\ tick_cache = [s \in Symbols |-> None]
    /\ uuid_n = 0
    /\ sent = <<>>
    /\ po = NoPo /\ w = NoW /\ pal = NoPal /\ cx = NoCx /\ hist = NoHist /\ ex = NoEx
    /\ sel = NoSel /\ thr = NoThr /\ pt = NoPt
    /\ \E order_id \in PolledOrderIds :
         calc = [active |-> TRUE, fn |-> "get_trade_history", order_id |-> order_id,
                 answer |-> None]
    /\ outcome = Running

TradeHistoryNext == TradeHistoryCall \/ PalNext

\* A call of get_trade_history, or a call of place_and_log with its polls
SpecTradeHistory == (InitTradeHistory \/ InitPal) /\ [][TradeHistoryNext]_vars

----------------------------------------------------------------------------
(* Claims about wait_for_order_fill *)

ExchangeFailed ==
    outcome.kind = "raise" /\ outcome.exc.type \in {"HTTPError", "ApiException"}

\* The clock advances by a positive amount in every poll iteration: the
\* sleep takes time, or every exchange call does.
PositiveAdvance == w.poll_interval > 0 \/ 0 \notin lats

\* C4: wait_for_order_fill returns at the first poll at which
\* get_trade_history yields a non-empty list for the polled order id: it
\* returns exactly those records, and after that poll it neither sleeps nor
\* makes any further exchange call, however much of the timeout remains.
C4_ReturnsAtFirstHit ==
    /\ w.hit # None =>
         /\ pc = "done"
         /\ outcome = Returned(Val(w.hit).trades)
         /\ w.iters = Val(w.hit).iters
    /\ (outcome.kind = "return" /\ outcome.value # <<>>) => w.hit # None

\* A fill seen after at least one sleep, with timeout left at the return
C4_Witness ==
    /\ w.hit # None
    /\ w.slept
    /\ now - w.start < w.timeout
    /\ pc = "done"

\* C5 as stated, for every poll interval: a call that observed no execution
\* record and met no exchange failure ends by returning the empty list.
C5_AnyPollIntervalReturnsEmpty ==
    (pc = "done" /\ w.hit = None /\ ~ExchangeFailed) => outcome = Returned(<<>>)

C5_Safety ==
    /\ (pc = "done" /\ w.hit = None /\ ~ExchangeFailed /\ w.poll_interval >= 0)
           => outcome = Returned(<<>>)
    \* an iteration is only started while elapsed time < timeout
    /\ pc \in {"w_hist1", "w_detail", "w_hist2", "w_sleep"} => w.iter_at - w.start < w.timeout
    /\ w.timeout <= 0 => (~w.called /\ ~w.slept /\ w.iters = 0)
    /\ PositiveAdvance => (w.iters = 0 \/ w.iters <= w.timeout)

\* C5 (amended): provided the clock advances by a positive amount in every
\* poll iteration, wait_for_order_fill terminates for every timeout and
\* every non-negative poll interval: without an execution record it
\* returns the empty list, it starts no poll iteration once elapsed time >=
\* timeout, and with timeout <= 0 it makes no exchange call at all.
C5_TerminatesNonNegativePoll ==
    /\ []C5_Safety
    /\ (PositiveAdvance /\ w.poll_interval >= 0) ~> (pc = "done")

\* The timeout elapsed after two or more empty iterations
C5_Witness ==
    /\ pc = "done"
    /\ outcome = Returned(<<>>)
    /\ w.iters >= 2
    /\ PositiveAdvance
    /\ now - w.start >= w.timeout

----------------------------------------------------------------------------
(* A session of place_order calls, made with any arguments a caller gives  *)
(* (entry and exit of place_and_log, close_position, set_profit_targets)   *)

CallPlaceOrder ==
    /\ pc = "idle"
    /\ Len(sent) < MaxCalls
    /\ \E side \in {"Buy", "Sell"}, price \in {None} \cup {Some(p) : p \in Prices},
          is_exit \in BOOLEAN :
         po' = PlaceOrderFrame("top", "BTC-A", side, 1, price, "GTC", is_exit)
    /\ pc' = "po_prepare"
    /\ outcome' = Running
    /\ UNCHANGED <<now, tick_cache, uuid_n, sent, w, pal, cx, hist, lats, ex, sel, calc, thr, pt>>

InitOrders ==
    /\ pc = "idle"
    /\ now = 0
    /\ lats = {0}
    /\ \E c \in {None} \cup {Some(t) : t \in 0..MaxTick} :
         tick_cache = [s \in Symbols |-> IF s = "BTC-A" THEN c ELSE None]
    /\ uuid_n = 0
    /\ sent = <<>>
    /\ po = NoPo /\ w = NoW /\ pal = NoPal /\ cx = NoCx /\ hist = NoHist /\ ex = NoEx /\ sel = NoSel
    /\ calc = NoCalc /\ thr = NoThr /\ pt = NoPt
    /\ outcome = Running

OrdersNext == CallPlaceOrder \/ PlaceOrderPrepare \/ PlaceOrderSend

SpecOrders == InitOrders /\ [][OrdersNext]_vars

----------------------------------------------------------------------------
(* Claims about place_order *)

\* r is the multiple of tick nearest to p, an exact half rounded up
IsNearestTick(r, p, tick) ==
    /\ tick > 0
    /\ r % tick = 0
    /\ 2 * r <= 2 * p + tick
    /\ 2 * r > 2 * p - tick

\* The running or last place_order call has sent its request
PoSent == po # NoPo /\ Len(sent) > po.sent_before

\* C6: across any sequence of place_order calls every create-order request
\* carries an orderLinkId idempotency token, and no two requests ever carry
\* the same token.
C6_UniqueTokens ==
    \A i, j \in 1..Len(sent) :
        /\ sent[i].orderLinkId # None
        /\ i # j => sent[i].orderLinkId # sent[j].orderLinkId

\* Two requests went out: a reduce-only one and a plain one
C6_Witness ==
    /\ Len(sent) >= 2
    /\ \E i, j \in 1..Len(sent) : sent[i].reduceOnly = None /\ sent[j].reduceOnly # None

\* C7: place_order submits orderType Limit with a price field equal to the
\* tick-rounded price exactly when a price is given, and orderType Market
\* with no price field exactly when no price is given; the price is rounded
\* before the create-order request is sent.
C7_LimitIffPrice ==
    /\ (po # NoPo /\ po.body # None) =>
         LET b == Val(po.body)
         IN IF po.price # None
            THEN /\ b.orderType = "Limit"
                 /\ b.price # None
                 /\ tick_cache[po.symbol] # None
                 /\ IsNearestTick(Val(b.price), Val(po.price), Val(tick_cache[po.symbol]))
            ELSE b.orderType = "Market" /\ b.price = None
    /\ pc = "po_send" => po.body # None
    /\ PoSent => sent[Len(sent)] = Val(po.body)

\* A limit order whose price had to be moved to the tick was sent, after a
\* market order
C7_Witness ==
    /\ PoSent
    /\ po.price # None
    /\ Val(po.body).price # po.price
    /\ \E i \in 1..Len(sent) : sent[i].orderType = "Market"

\* C8: whenever the exchange answers a create-order request with a non-zero
\* result code, place_order raises ApiException carrying that code and
\* message, returns no order id, and sends no second create-order request
\* for that call.
C8_RejectionRaisesOnce ==
    /\ po # NoPo => Len(sent) <= po.sent_before + 1
    /\ (po # NoPo /\ po.answer # None /\ Val(po.answer).http = "ok"
          /\ Val(po.answer).retCode # 0) =>
         /\ pc = "idle"
         /\ outcome = Raised(ApiException(Val(po.answer).retCode, Val(po.answer).msgNums))
         /\ Len(sent) = po.sent_before + 1

\* The second order of a session was rejected
C8_Witness ==
    /\ pc = "idle"
    /\ Len(sent) = 2
    /\ po.answer # None
    /\ Val(po.answer).http = "ok"
    /\ Val(po.answer).retCode = 10002

----------------------------------------------------------------------------
(* Claims about place_and_log *)

ExitOrders == {i \in 1..Len(sent) : sent[i].reduceOnly # None}

\* C1: if neither the five fast polls nor wait_for_order_fill observes an
\* execution record for the entry order, no exit order is submitted: the
\* entry is the only create-order request of the call, and the call returns
\* the empty trade list together with the log path instead of raising.
C1_NoFillNoExit ==
    /\ pal.trades = <<>> => (ExitOrders = {} /\ Len(sent) <= 1)
    /\ (pal.trades = <<>> /\ pal.detail_fetched) =>
         /\ pc = "done"
         /\ Len(sent) = 1
         /\ pal.trade_log # None
         /\ outcome = Returned([trades |-> <<>>, trade_log |-> pal.trade_log])

\* The call came back from a timed-out wait_for_order_fill with nothing
C1_Witness ==
    /\ pc = "done"
    /\ pal.detail_fetched
    /\ pal.trades = <<>>
    /\ pal.limit_price = Some(1)
    /\ outcome.kind = "return"

\* The first non-missing of: the execPrice of the first execution on the
\* submitted side, the order's avgPrice, the order's price
FirstNonMissingPrice(trades, order, side) ==
    LET same == {i \in 1..Len(trades) : Lower(trades[i].side) = Lower(side)}
        first == CHOOSE i \in same : \A j \in same : i <= j
        exec == IF same # {} THEN trades[first].execPrice ELSE None
        avg == IF order # None THEN Val(order).avgPrice ELSE None
        quoted == IF order # None THEN Val(order).price ELSE None
    IN IF exec # None THEN exec ELSE IF avg # None THEN avg ELSE quoted

\* The exit order of the call is priced at the tick nearest to three times
\* the settled entry price, and goes out at that price
ExitAtThreeTimesEntryPrice ==
    (po # NoPo /\ po.ret = "exit") =>
        /\ pal.entry_price # None
        /\ po.price # None
        /\ IsNearestTick(Val(po.price), 3 * Val(pal.entry_price), Val(tick_cache[pal.symbol]))
        /\ PoSent => (Len(sent) = 2 /\ sent[2].price = po.price)

\* C2 as stated: with or without a limit price, the exit is priced from the
\* first non-missing of execution price, avgPrice and price.
C2_ExitFromObservedPrice ==
    /\ pc = "pal_target" =>
         pal.entry_price = FirstNonMissingPrice(pal.trades, pal.order, pal.side)
    /\ ExitAtThreeTimesEntryPrice

\* C2 (amended): for every place_and_log call that observes at least one
\* execution, the exit order price is round_to_tick(3 * P) where P is the
\* limit price when a non-zero limit price was supplied, and otherwise the
\* first non-missing of: the execPrice of the execution whose side equals
\* the submitted side (case-insensitive), the order's avgPrice, the order's
\* price; when all of these are missing no exit order is submitted.
C2_ExitFromLimitOrObservedPrice ==
    /\ pc = "pal_target" =>
         pal.entry_price = IF Truthy(pal.limit_price) THEN pal.limit_price
                           ELSE FirstNonMissingPrice(pal.trades, pal.order, pal.side)
    /\ (pc = "done" /\ outcome.kind = "return" /\ pal.trades # <<>> /\ ExitOrders = {}) =>
         /\ ~Truthy(pal.limit_price)
         /\ FirstNonMissingPrice(pal.trades, pal.order, pal.side) = None
    /\ ExitOrders # {} => pal.entry_price # None
    /\ ExitAtThreeTimesEntryPrice

\* A market entry whose first execution is on the other side and whose
\* second carries the price, with a different avgPrice on the order: the
\* exit went out at the tick nearest to three times the execution price
C2_Witness ==
    /\ PoSent /\ po.ret = "exit"
    /\ pal.limit_price = None
    /\ pal.side = "sell"
    /\ Len(pal.trades) = 2
    /\ pal.trades[1].side = "Buy"
    /\ pal.trades[2] = [orderId |-> NewOrderId, side |-> "Sell", execPrice |-> Some(1)]
    /\ sent[2].price = Some(4)

\* C3: every exit order submitted by place_and_log is for the symbol of the
\* entry, has the opposite side, carries reduceOnly = true, is a Limit order
\* at the tick-rounded target, has the entry's submitted quantity and the
\* entry's time in force; the entry order itself never carries reduceOnly.
C3_ExitMirrorsEntry ==
    /\ Len(sent) <= 2
    /\ Len(sent) >= 1 =>
         /\ sent[1].reduceOnly = None
         /\ sent[1].symbol = pal.symbol /\ sent[1].side = pal.side
         /\ sent[1].qty = pal.qty /\ sent[1].timeInForce = pal.tif
    /\ Len(sent) = 2 =>
         /\ sent[2].reduceOnly = Some(TRUE)
         /\ sent[2].symbol = sent[1].symbol
         /\ Lower(sent[1].side) = "buy" => sent[2].side = "Sell"
         /\ Lower(sent[1].side) = "sell" => sent[2].side = "Buy"
         /\ sent[2].orderType = "Limit"
         /\ sent[2].price # None
         /\ IsNearestTick(Val(sent[2].price), 3 * Val(pal.entry_price),
                          Val(tick_cache[pal.symbol]))
         /\ sent[2].qty = sent[1].qty
         /\ sent[2].timeInForce = sent[1].timeInForce

\* A lower-case sell entry of 2 contracts, IOC, got its Buy exit
C3_Witness ==
    /\ Len(sent) = 2
    /\ sent[1].side = "sell" /\ sent[1].qty = 2 /\ sent[1].timeInForce = "IOC"
    /\ sent[1].orderType = "Market"
    /\ sent[2].side = "Buy"
    /\ pc = "done" /\ outcome.kind = "return"

----------------------------------------------------------------------------
(* Claims about cancel_all_orders *)

\* The exchange rejected the cancel-all request with retCode `code`
CancelRejectedWith(code) ==
    /\ cx.answer # None
    /\ Val(cx.answer).http = "ok"
    /\ Val(cx.answer).retCode = code

\* C9: cancel_all_orders returns normally when the exchange rejects the
\* cancel-all request with result code 110008, and for an API error with
\* any other result code it raises ApiException to the caller: no other
\* exchange error is swallowed.
C9_OnlyNoActiveOrdersSwallowed ==
    /\ CancelRejectedWith(NoActiveOrders) => cx.result = Some(Returned(None))
    /\ \A code \in RetCodes \ {NoActiveOrders} :
         CancelRejectedWith(code) =>
            /\ cx.result = Some(Raised(ApiException(code, Val(cx.answer).msgNums)))
            /\ pc = "done"
            /\ outcome = Val(cx.result)

----------------------------------------------------------------------------
(* Claims about list_trade_history and list_delivery_history *)

\* C10: for both list_trade_history and list_delivery_history, every query
\* window [startTime, endTime] lies within [start_time, end_time] and spans
\* at most 7 days (604800000 ms); windows are issued from latest to earliest
\* and are pairwise disjoint, and all cursor pages of one window are
\* requested before the first request of the next earlier window.
C10_WindowsWithinRangeLatestFirst ==
    hist.active =>
      /\ \A i \in 1..Len(hist.reqs) :
           LET r == hist.reqs[i]
           IN /\ hist.start_time <= r.startTime
              /\ r.startTime <= r.endTime
              /\ r.endTime <= hist.end_time
              /\ r.endTime - r.startTime <= 604800000
              /\ r.endpoint = hist.endpoint
      /\ \A i, j \in 1..Len(hist.reqs) :
           i < j =>
             LET a == hist.reqs[i]
                 b == hist.reqs[j]
             IN \/ b.endTime < a.startTime
                \/ /\ a.startTime = b.startTime /\ a.endTime = b.endTime
                   /\ b.cursor # None

\* Both endpoints: a walk over three windows, one of them read in two pages
C10_Witness ==
    /\ hist.active
    /\ pc = "done"
    /\ outcome.kind = "return"
    /\ \E i, j, k \in 1..Len(hist.reqs) :
         /\ i < j /\ j < k
         /\ hist.reqs[i].startTime = hist.reqs[j].startTime
         /\ hist.reqs[j].cursor # None
         /\ hist.reqs[k].endTime < hist.reqs[j].startTime
         /\ hist.reqs[k].startTime = hist.start_time
         /\ hist.reqs[k].endTime - hist.reqs[k].startTime < 604800000

\* The query windows of the walk so far, as <<startTime, endTime>> pairs
HistWindows == {<<hist.reqs[i].startTime, hist.reqs[i].endTime>> : i \in 1..Len(hist.reqs)}

\* The number of queried windows that contain millisecond t
WindowsHolding(t) == Cardinality({win \in HistWindows : win[1] <= t /\ t <= win[2]})

\* The milliseconds of [start_time, end_time] at which the cover by windows
\* can change: the ends of the range and of every window, and their neighbours
HistCriticalTimes ==
    {t \in {hist.start_time, hist.end_time}
           \cup UNION {{win[1] - 1, win[1], win[2], win[2] + 1} : win \in HistWindows} :
       hist.start_time <= t /\ t <= hist.end_time}

\* C11: if the empty-run circuit breaker never trips, the windows queried
\* for any start_time <= end_time form a partition of [start_time, end_time]:
\* every millisecond of the range lies in exactly one queried window.
C11_WindowsPartitionRange ==
    (/\ hist.active
     /\ pc = "done"
     /\ outcome.kind = "return"
     /\ hist.empty_runs < MaxEmptyRuns
     /\ hist.start_time <= hist.end_time) =>
        \A t \in HistCriticalTimes : WindowsHolding(t) = 1

\* The number of empty windows at the end of the window results `wins`
RECURSIVE TrailingEmpty(_)
TrailingEmpty(wins) ==
    IF wins = <<>> \/ ~wins[Len(wins)] THEN 0
    ELSE 1 + TrailingEmpty(SubSeq(wins, 1, Len(wins) - 1))

\* C12: the history fetch stops as soon as three consecutive windows have
\* returned zero records: no window is queried after a run of three empty
\* windows, a non-empty window resets the consecutive-empty count to zero,
\* and a run of fewer than three empty windows never stops the scan before
\* start_time is reached.
C12_StopsAfterThreeEmptyWindows ==
    hist.active =>
      /\ \A i \in 1..(Len(hist.wins) - 2) :
           (hist.wins[i] /\ hist.wins[i + 1] /\ hist.wins[i + 2]) =>
              /\ i + 2 = Len(hist.wins)
              /\ pc \in {"h_loop", "done"}
              /\ Cardinality(HistWindows) = Len(hist.wins)
      /\ pc \in {"h_loop", "done"} => hist.empty_runs = TrailingEmpty(hist.wins)
      /\ (pc = "done" /\ outcome.kind = "return" /\ TrailingEmpty(hist.wins) < 3) =>
            hist.current_end <= hist.start_time

\* Three empty windows in a row end a walk that has not reached start_time
C12_Witness ==
    /\ hist.active
    /\ pc = "done"
    /\ outcome.kind = "return"
    /\ hist.current_end > hist.start_time
    /\ TrailingEmpty(hist.wins) = 3

\* How many records of the returned list carry execution time t
ReturnedAt(t) == Cardinality({i \in 1..Len(outcome.value) : outcome.value[i].execTime = t})

\* C13: list_trade_history(start_time, end_time), start_time = 0 included,
\* returns every execution record the exchange holds with a time inside
\* [start_time, end_time], each exactly once, however the records are
\* distributed in time.
C13_ReturnsEveryHeldRecordOnce ==
    (hist.active /\ pc = "done" /\ outcome.kind = "return") =>
        \A t \in hist.held :
           (hist.start_time <= t /\ t <= hist.end_time) => ReturnedAt(t) = 1

----------------------------------------------------------------------------
(* Claims about _write_trade_history_csv *)

\* The rows of the written file
CsvRows == IF ex.file = None THEN <<>> ELSE Val(ex.file)

\* The writer returned normally
CsvWritten == ex.active /\ pc = "done" /\ outcome.kind = "return" /\ ex.file # None

\* C14: in the reconciled output, with rows r1..rn in written order:
\* balance(r1) = walletBalance - sum of all netPnl + netPnl(r1),
\* balance(r_i) = balance(r_(i-1)) + netPnl(r_i) for i > 1, and balance(r_n)
\* equals the wallet balance read for that export.
C14_BalancesEndAtWalletBalance ==
    (CsvWritten /\ CsvRows # <<>>) =>
        LET rows == CsvRows
            n == Len(rows)
            total == FSum([i \in 1..n |-> rows[i].netPnl])
        IN /\ rows[1].balance = FAdd(FSub(ex.final_balance, total), rows[1].netPnl)
           /\ \A i \in 2..n : rows[i].balance = FAdd(rows[i - 1].balance, rows[i].netPnl)
           /\ rows[n].balance = ex.final_balance

\* Field f of record t is present, non-empty and numeric
Numeric(t, f) == t[f].k = "num"

\* Field f of record t counts as zero in the fallback: missing, None or ""
Blank(t, f) == t[f].k \in {"absent", "none"} \/ t[f] = Str("")

\* sign * execValue - execFee, or 0 when a non-blank value is not numeric
DerivedPnl(t) ==
    IF (Blank(t, "execValue") \/ Numeric(t, "execValue"))
          /\ (Blank(t, "execFee") \/ Numeric(t, "execFee"))
    THEN LET sign == IF t.side.k = "str" /\ Lower(t.side.s) = "sell" THEN 1 ELSE 0 - 1
             value == IF Numeric(t, "execValue") THEN t.execValue.n ELSE 0
             fee == IF Numeric(t, "execFee") THEN t.execFee.n ELSE 0
         IN Fl(sign * value - fee)
    ELSE 0

\* C15: the netPnl of a row is the first of closedPnl, realisedPnl, execPnl
\* that is present, non-empty and numeric; when none qualifies it is
\* sign * execValue - execFee with sign +1 for side sell and -1 for any
\* other side (0 if that cannot be computed); netFee is the row's execFee,
\* or 0 when execFee is missing or not numeric.
C15_NetPnlAndNetFee ==
    ex.active =>
      \A i \in 1..Len(CsvRows) :
         LET row == CsvRows[i]
             t == row.src
         IN /\ row.netPnl =
                 CASE Numeric(t, "closedPnl") -> t.closedPnl.n
                   [] ~Numeric(t, "closedPnl") /\ Numeric(t, "realisedPnl") -> t.realisedPnl.n
                   [] ~Numeric(t, "closedPnl") /\ ~Numeric(t, "realisedPnl")
                        /\ Numeric(t, "execPnl") -> t.execPnl.n
                   [] OTHER -> DerivedPnl(t)
            /\ row.netFee = IF Numeric(t, "execFee") THEN t.execFee.n ELSE 0

\* A written row whose P&L is derived for a sell, after a non-numeric
\* closedPnl and an empty realisedPnl were passed over
C15_Witness ==
    /\ CsvWritten
    /\ \E i \in 1..Len(CsvRows) :
         LET t == CsvRows[i].src
         IN /\ t.closedPnl = Str("abc") /\ t.realisedPnl = Str("") /\ t.execPnl = Null
            /\ t.side = Str("Sell") /\ t.execValue = Num(2) /\ t.execFee = Num(1)
            /\ CsvRows[i].netPnl = 1
            /\ CsvRows[i].netFee = 1

\* rows is the list trades in non-decreasing execTime order, a missing
\* execTime counting as 0 and records of equal time keeping their order
StableByTime(rows, trades) ==
    /\ Len(rows) = Len(trades)
    /\ \E perm \in [1..Len(trades) -> 1..Len(trades)] :
         /\ \A i, j \in 1..Len(trades) : i # j => perm[i] # perm[j]
         /\ \A i \in 1..Len(trades) : rows[i].src = trades[perm[i]]
         /\ \A i, j \in 1..Len(trades) :
              i < j => \/ TimeKey(trades[perm[i]]) < TimeKey(trades[perm[j]])
                       \/ /\ TimeKey(trades[perm[i]]) = TimeKey(trades[perm[j]])
                          /\ perm[i] < perm[j]

\* C16: for any non-empty input list of records, the writer writes exactly
\* one output row per input record, in non-decreasing execTime order
\* (records with equal or missing execTime keep their input order),
\* whatever fields the individual records carry.
C16_OneRowPerRecordInTimeOrder ==
    (ex.active /\ pc = "done") =>
        /\ outcome.kind = "return"
        /\ StableByTime(CsvRows, ex.trades)

----------------------------------------------------------------------------
(* Claims about the history exports *)

\* C17: if fetching the history raises ApiException, export_all_trade_history
\* and export_all_delivery_history report the failure, do not raise, and
\* create or modify no CSV file; when the fetch returns no records no CSV
\* file is written either.
C17_FailedOrEmptyFetchWritesNothing ==
    (ex.active /\ ex.fn \in ExportFns /\ ex.fetched # None) =>
        LET fetched == Val(ex.fetched)
        IN /\ (fetched.kind = "raise" /\ fetched.exc.type = "ApiException") =>
                /\ pc = "done"
                /\ outcome = Returned(None)
                /\ ex.reported = Some("failed")
                /\ ex.file = ex.file_before
           /\ (fetched.kind = "return" /\ fetched.value = <<>>) =>
                /\ pc = "done"
                /\ outcome = Returned(None)
                /\ ex.file = ex.file_before

\* A fetch that raised ApiException where a file of an earlier export exists
C17_Witness ==
    /\ ex.active /\ ex.fn = "export_all_delivery_history"
    /\ ex.fetched # None
    /\ Val(ex.fetched).kind = "raise"
    /\ Val(ex.fetched).exc.type = "ApiException"
    /\ ex.file_before = Some(<<OldRow>>)
    /\ pc = "done"

----------------------------------------------------------------------------
(* Claims about choose_symbol_by_risk *)

\* The call returned after the exchange listed instruments
SelReturned == sel.active /\ pc = "done" /\ outcome.kind = "return" /\ sel.listed # None

\* The listed instruments, in listed order, of the template's option type
ListedOfType ==
    SelectSeq(Val(sel.listed), LAMBDA i : Upper(i.symbol[4]) = Upper(sel.base_symbol[4]))

\* C18: for every instrument list the exchange returns (lists that mix calls
\* and puts included), the symbol returned is either the template symbol or
\* a listed instrument whose option-type field equals the template's option
\* type (letter case aside), even when an instrument of the other type has
\* a mark price closer to the target.
C18_ReturnsTemplateOrSameType ==
    SelReturned =>
        \/ outcome.value[1] = sel.base_symbol
        \/ \E n \in 1..Len(Val(sel.listed)) :
             /\ Val(sel.listed)[n].symbol = outcome.value[1]
             /\ Upper(outcome.value[1][4]) = Upper(sel.base_symbol[4])

\* A put is returned for a put template although a listed call has a mark
\* price strictly closer to the target
C18_Witness ==
    /\ SelReturned
    /\ Len(sel.filtered) > 0
    /\ sel.base_symbol[4] = "P" /\ outcome.value[1][4] = "P"
    /\ \E n \in 1..Len(Val(sel.listed)) :
         /\ Val(sel.listed)[n].symbol[4] = "C"
         /\ Abs(Val(sel.listed)[n].markPrice * sel.qty - sel.risk_usd)
              < Abs(outcome.value[2] * sel.qty - sel.risk_usd)

\* The expiry of the cohort: the template's date when an instrument of the
\* right type has it, else the earliest date among those instruments, None
\* when none of their expiries is a date
CohortExpiry ==
    LET dates == {parse_expiry(ListedOfType[n].symbol[2]) : n \in 1..Len(ListedOfType)} \ {None}
        wanted == parse_expiry(sel.base_symbol[2])
    IN IF wanted # None /\ wanted \in dates THEN wanted
       ELSE IF dates # {} THEN CHOOSE d \in dates : \A o \in dates : Val(d) <= Val(o)
       ELSE None

\* The cohort: the instruments of the right type with the cohort's expiry
Cohort == SelectSeq(ListedOfType, LAMBDA i : parse_expiry(i.symbol[2]) = CohortExpiry)

C20_ClosestMarkPriceFirstOnTies ==
    (SelReturned /\ sel.filtered # <<>>) =>
        LET away(n) == Abs(Cohort[n].markPrice * sel.qty - sel.risk_usd)
        IN \E n \in 1..Len(Cohort) :
             /\ outcome.value = <<Cohort[n].symbol, Cohort[n].markPrice>>
             /\ \A m \in 1..Len(Cohort) : away(n) <= away(m)
             /\ \A m \in 1..(n - 1) :
                  away(m) > away(n) \/ Cohort[m] = Cohort[n]

\* Two instruments of the cohort are equally close to the target, one below
\* and one above it; the first is returned
C20_Witness ==
    /\ SelReturned
    /\ Len(Cohort) = 2
    /\ Cohort[1].symbol # Cohort[2].symbol
    /\ Cohort[1].markPrice # Cohort[2].markPrice
    /\ Abs(Cohort[1].markPrice * sel.qty - sel.risk_usd)
         = Abs(Cohort[2].markPrice * sel.qty - sel.risk_usd)
    /\ outcome.value = <<Cohort[1].symbol, Cohort[1].markPrice>>

\* C21: choose_symbol_by_risk never raises, for any template symbol and any
\* exchange behaviour: with a zero risk budget or quantity it returns
\* (template symbol, 0) without calling the exchange, and when the
\* instrument chain or a ticker cannot be retrieved (transport failure,
\* non-zero result code, empty list, malformed instrument symbol) it returns
\* (template symbol, 0).
C21_NeverRaises ==
    (sel.active /\ pc = "done") =>
        /\ outcome.kind = "return"
        /\ (sel.risk_usd = 0 \/ sel.qty = 0) =>
              outcome.value = <<sel.base_symbol, 0>> /\ sel.listed = None
        /\ (sel.listed = None \/ sel.listed = Some(<<>>)) =>
              outcome.value = <<sel.base_symbol, 0>>

----------------------------------------------------------------------------
(* Claims about compute_order_qty *)

\* compute_order_qty has returned
QtyReturned == calc.active /\ calc.fn = "compute_order_qty" /\ pc = "done"

\* The inputs are positive and k increments are the multiple of min_qty
\* nearest to max(risk / price, min_qty); distances are multiplied by the price
QtyNearest(k) ==
    LET p == Val(calc.price)
        m == calc.min_qty
        target == Max(Val(calc.risk_usd), m * p)
    IN /\ k >= 1
       /\ \A j \in 0..(target \div (m * p) + 1) :
            Abs(k * m * p - target) <= Abs(j * m * p - target)

QtySteps == 1..(Max(Val(calc.risk_usd), 1) + 1)

\* C22 as stated: compute_order_qty(risk, price, min_qty) returns 0 when
\* risk or price is zero or missing; for every positive risk, price and
\* minimum increment the result is an integer multiple of min_qty, is at
\* least min_qty, and is the multiple nearest to max(risk / price, min_qty).
C22_NearestMultipleOfIncrement ==
    QtyReturned =>
        IF ~Truthy(calc.risk_usd) \/ ~Truthy(calc.price) THEN outcome.value = 0
        ELSE \E k \in QtySteps : QtyNearest(k) /\ outcome.value = k * calc.min_qty

\* C22, amended: the result is that nearest multiple rounded to two decimal
\* places, which is the multiple itself when min_qty is a whole number of
\* hundredths.
C22_NearestMultipleInHundredths ==
    QtyReturned =>
        IF ~Truthy(calc.risk_usd) \/ ~Truthy(calc.price) THEN outcome.value = 0
        ELSE \E k \in QtySteps :
               /\ QtyNearest(k)
               /\ outcome.value % 10 = 0
               /\ 2 * Abs(outcome.value - k * calc.min_qty) <= 10
               /\ calc.min_qty % 10 = 0 => outcome.value = k * calc.min_qty

\* A risk of 0.32 at a price of 20 gave 0.02
C22_Witness ==
    /\ QtyReturned
    /\ calc.risk_usd = Some(320) /\ calc.price = Some(20) /\ calc.min_qty = MIN_ORDER_QTY
    /\ outcome.value = 20

----------------------------------------------------------------------------
(* Claims about round_to_tick and get_tick_size *)

\* The last call of the process was round_to_tick and it returned a price
RoundReturned(c) ==
    c # None /\ Val(c).fn = "round_to_tick" /\ Val(c).out.kind = "return"

\* C23: round_to_tick(price, symbol) returns an exact integer multiple of
\* the symbol's tick size that is the multiple nearest to price, with exact
\* halves rounded up; applying it to its own result returns the same value.
C23_NearestTickHalfUpIdempotent ==
    (calc.active /\ calc.fn = "tick_calls" /\ RoundReturned(calc.last)) =>
        LET c == Val(calc.last)
            r == c.out.value
            p == Val(c.price)
            tick == Val(tick_cache[c.symbol])
        IN /\ tick > 0
           /\ r % tick = 0
           /\ \A k \in 0..(p \div tick + 1) : Abs(r - p) <= Abs(k * tick - p)
           /\ 2 * (p % tick) = tick => r > p
           /\ (RoundReturned(calc.prev) /\ Val(calc.prev).symbol = c.symbol
                 /\ Val(calc.prev).out.value = p) => r = p

\* A price halfway between two ticks was rounded up, and rounding the result
\* again left it alone
C23_Witness ==
    /\ calc.active /\ calc.fn = "tick_calls"
    /\ RoundReturned(calc.last) /\ RoundReturned(calc.prev)
    /\ Val(calc.prev).symbol = Val(calc.last).symbol
    /\ tick_cache[Val(calc.last).symbol] = Some(2)
    /\ Val(calc.prev).price = Some(3)
    /\ Val(calc.prev).out.value = 4
    /\ Val(calc.last).price = Some(4)
    /\ Val(calc.last).out.value = 4


\* place_order was called with a price for a symbol whose tick size the
\* exchange reported as zero or not at all, and is past its rounding step
ZeroTickOrder ==
    /\ po # NoPo /\ po.price # None /\ pc # "po_prepare"
    /\ tick_cache[po.symbol] = Some(0)

\* C24: if an instrument's tick size is reported as zero or is missing,
\* round_to_tick raises an error and substitutes no default; consequently
\* place_order called with a price for that symbol sends no create-order
\* request.
C24_ZeroTickRaisesNothingSent ==
    ZeroTickOrder =>
        /\ pc = "idle" /\ ~po.active
        /\ outcome = Raised([type |-> "ValueError"])
        /\ po.body = None
        /\ Len(sent) = po.sent_before

\* After an order that went out, a priced order for a symbol with a zero
\* tick was refused
C24_Witness ==
    /\ ZeroTickOrder
    /\ outcome = Raised([type |-> "ValueError"])
    /\ Len(sent) = 1 /\ po.sent_before = 1


\* C25: after get_tick_size(symbol) has once returned a value, every later
\* get_tick_size or round_to_tick for that symbol returns or uses that same
\* value and issues no instrument-info request (at most one successful
\* fetch per symbol); a fetch that fails leaves the cache unchanged.
C25_FetchedOncePerSymbol ==
    (calc.active /\ calc.fn = "tick_calls") =>
        /\ \A s \in Symbols :
             /\ calc.fetched[s] <= 1
             /\ calc.late_requests[s] = 0
             /\ calc.first[s] # None => tick_cache[s] = calc.first[s]
        /\ calc.last # None =>
             LET c == Val(calc.last)
             IN /\ c.cache_before[c.symbol] # None =>
                     /\ ~c.requested
                     /\ c.tick = c.cache_before[c.symbol]
                     /\ c.fn = "get_tick_size" => c.out = Returned(Val(c.tick))
                /\ (c.requested /\ c.tick = None) => tick_cache = c.cache_before
                /\ \A s \in Symbols \ {c.symbol} : tick_cache[s] = c.cache_before[s]

\* A call fetched the tick 2; the next call, a round_to_tick for the same
\* symbol, asked the exchange nothing and used it
C25_Witness ==
    /\ calc.active /\ calc.fn = "tick_calls"
    /\ calc.last # None /\ calc.prev # None
    /\ Val(calc.prev).requested /\ Val(calc.prev).tick = Some(2)
    /\ Val(calc.last).symbol = Val(calc.prev).symbol
    /\ ~Val(calc.last).requested
    /\ Val(calc.last).fn = "round_to_tick"
    /\ Val(calc.last).tick = Some(2)


\* The symbols some thread has asked the exchange about
ThrFetched == {thr.t[i].symbol : i \in {j \in Threads : thr.t[j].fetches > 0}}

\* C26: two threads calling get_tick_size concurrently for the same
\* uncached symbol may both fetch, but each caller gets a tick size the
\* exchange reported for that symbol, the cache afterwards maps the symbol
\* to one of those values, and other symbols' entries are unaffected.
C26_ConcurrentFetchesAgree ==
    thr.active =>
        /\ \A i \in Threads :
             thr.t[i].out.kind = "return" =>
                 /\ thr.t[i].out.value \in thr.reported[thr.t[i].symbol]
                 /\ tick_cache[thr.t[i].symbol] # None
        /\ \A s \in Symbols :
             /\ tick_cache[s] # None => Val(tick_cache[s]) \in thr.reported[s]
             /\ s \notin ThrFetched => tick_cache[s] = thr.cache0[s]

\* Two threads both fetched the same uncached symbol, were told different
\* tick sizes and returned them; the cache holds the one stored last, and
\* the other symbol's entry is as it was
C26_Witness ==
    /\ thr.active
    /\ thr.t[1].symbol = "BTC-A" /\ thr.t[2].symbol = "BTC-A"
    /\ thr.cache0 = [s \in Symbols |-> IF s = "BTC-A" THEN None ELSE Some(2)]
    /\ thr.t[1].fetches = 1 /\ thr.t[2].fetches = 1
    /\ thr.t[1].out = Returned(1) /\ thr.t[2].out = Returned(2)
    /\ tick_cache = [s \in Symbols |-> IF s = "BTC-A" THEN Some(1) ELSE Some(2)]

----------------------------------------------------------------------------
(* Claims about set_profit_targets *)

\* The position is long, with a non-zero size, a symbol and a non-zero
\* average price
LongWithPrice(pos) ==
    /\ pos.side \in {"Buy", "buy"}
    /\ pos.size # None /\ pos.size # Some(0)
    /\ pos.symbol # None
    /\ pos.avgPrice # None /\ pos.avgPrice # Some(0)

\* How many positions of the list set_profit_targets has dealt with
PtConsidered ==
    IF pt.positions = None THEN 0
    ELSE IF pc = "pt_loop" THEN pt.k - 1
    ELSE IF pc = "done" /\ outcome.kind = "return" THEN Len(Val(pt.positions))
    ELSE pt.k

\* The indices of the positions dealt with that are long with a price
PtDue == {k \in 1..PtConsidered : LongWithPrice(Val(pt.positions)[k])}

\* C27: set_profit_targets submits an order only for positions with side
\* Buy, non-zero size, a symbol and a non-zero avgPrice: for each such
\* position exactly one reduce-only Sell limit order with quantity |size| at
\* avgPrice * (multiplier + 1); for every position whose side is Sell (or
\* whose size or avgPrice is zero or missing) it submits nothing.  The order
\* is the place_order call; the request that place_order sends for it
\* carries that price moved to the tick.
C27_OneTargetPerLongPosition ==
    pt.active =>
        /\ {pt.calls[i].k : i \in 1..Len(pt.calls)} = PtDue
        /\ Len(pt.calls) = Cardinality(PtDue)
        /\ \A i \in 1..Len(pt.calls) :
             LET c == pt.calls[i]
                 pos == Val(pt.positions)[c.k]
             IN /\ c.symbol = Val(pos.symbol)
                /\ c.side = "Sell"
                /\ c.is_exit
                /\ c.qty = Abs(Val(pos.size))
                /\ c.price = Val(pos.avgPrice) * (pt.multiplier + 1)
        /\ Len(sent) <= Len(pt.calls)
        /\ \A n \in 1..Len(sent) :
             \E i \in 1..Len(pt.calls) :
                 /\ sent[n].symbol = pt.calls[i].symbol
                 /\ sent[n].side = "Sell"
                 /\ sent[n].orderType = "Limit"
                 /\ sent[n].reduceOnly = Some(TRUE)
                 /\ sent[n].qty = pt.calls[i].qty
                 /\ IsNearestTick(Val(sent[n].price), pt.calls[i].price,
                                  Val(tick_cache[sent[n].symbol]))

\* Of a short position and a long one of size -2, only the long one got an
\* order, a Sell of 2 at three times its average price
C27_Witness ==
    /\ pt.active /\ pc = "done" /\ outcome.kind = "return"
    /\ pt.multiplier = 2
    /\ Len(Val(pt.positions)) = 2
    /\ Val(pt.positions)[1].side = "Sell"
    /\ Val(pt.positions)[2].size = Some(0 - 2)
    /\ Val(pt.positions)[2].avgPrice = Some(2)
    /\ Len(sent) = 1
    /\ sent[1].side = "Sell" /\ sent[1].qty = 2 /\ sent[1].price = Some(6)

\* C28: if placing the profit-target order for one position fails (exchange
\* rejection, missing or zero tick size, transport error), set_profit_targets
\* still attempts the order for every later position in the list; the
\* failure does not propagate to the caller and does not abort the batch.
C28_FailureDoesNotAbortBatch ==
    (pt.active /\ pt.positions # None /\ pc = "done") =>
        /\ outcome.kind = "return"
        /\ {pt.calls[i].k : i \in 1..Len(pt.calls)}
             = {k \in 1..Len(Val(pt.positions)) : LongWithPrice(Val(pt.positions)[k])}

----------------------------------------------------------------------------
(* Claims about _greeks *)

\* C29: _greeks returns four missing values whenever any of spot, strike,
\* time-to-expiry, volatility or quantity is missing, or time-to-expiry <= 0,
\* or volatility <= 0; for every other input it returns four finite numbers
\* and does not raise.
C29_MissingOrFiniteNeverRaises ==
    (calc.active /\ calc.fn = "_greeks" /\ pc = "done") =>
        IF \/ None \in {calc.s, calc.k, calc.t, calc.sigma, calc.qty}
           \/ Val(calc.t) <= 0
           \/ Val(calc.sigma) <= 0
        THEN outcome = Returned(AllGreeks(None))
        ELSE outcome = Returned(AllGreeks(Some("number")))

----------------------------------------------------------------------------
(* Claims about build_option_symbol and _parse_symbol *)

\* The parts the form gave, as logical values: the asset in upper case, the
\* date with a two-digit year read as 20yy, the strike, CALL or PUT
SymGiven ==
    [base |-> UpperWord(calc.base),
     expiry |-> (IF calc.expiry.year < 100 THEN 2000 + calc.expiry.year
                 ELSE calc.expiry.year) * 10000
                  + calc.expiry.month * 100 + calc.expiry.day,
     strike |-> calc.strike,
     option_type |-> IF calc.option_type \in {"call", "Call", "c"} THEN "CALL" ELSE "PUT"]

\* The symbol was built and parsed
SymParsed == calc.active /\ calc.fn = "build_option_symbol" /\ pc = "done"

----------------------------------------------------------------------------
(* Claims about load_trade_config *)

ConfigLoaded == calc.active /\ calc.fn = "load_trade_config" /\ pc = "done" /\ calc.file # None
ConfigGiven == Val(calc.file)
ConfigLacksRequired ==
    \E f \in {"symbol", "side", "quantity"} :
        ConfigGiven[f] \in {Absent, Null, Str("")}

\* C31: for a configuration file holding a JSON object, load_trade_config
\* raises ValueError exactly when symbol, side or quantity is absent, null or
\* the empty string; otherwise it returns the configuration with every
\* supplied value unchanged, risk_usd 0 when it was absent and auto_trade
\* false when it was absent, whatever the other fields hold.
C31_RequiredFieldsAndDefaults ==
    ConfigLoaded =>
        IF ConfigLacksRequired
        THEN outcome.kind = "raise" /\ outcome.exc.type = "ValueError"
        ELSE /\ outcome.kind = "return"
             /\ \A f \in ConfigFields :
                  ConfigGiven[f] # Absent => outcome.value[f] = ConfigGiven[f]
             /\ ConfigGiven["risk_usd"] = Absent => outcome.value["risk_usd"] = Num(0)
             /\ ConfigGiven["auto_trade"] = Absent => outcome.value["auto_trade"] = Bool(FALSE)
             /\ \A f \in ConfigFields \ {"risk_usd", "auto_trade"} :
                  ConfigGiven[f] = Absent => outcome.value[f] = Absent

\* a configuration with the three required fields, a supplied risk_usd, no
\* auto_trade and no api_key has been loaded and returned
C31_Witness ==
    /\ ConfigLoaded /\ ~ConfigLacksRequired
    /\ outcome.kind = "return"
    /\ ConfigGiven["risk_usd"] = Num(5)
    /\ ConfigGiven["auto_trade"] = Absent
    /\ ConfigGiven["api_key"] = Absent
    /\ ConfigGiven["quantity"] = Num(0)

----------------------------------------------------------------------------
(* Claims about the audit files of place_and_log *)

AuAccepted(c) == AuCall(c).oid # None
AuLogged(c) == AuCall(c).trade_log # None
AuFileOf(c) == thr.files[Val(AuCall(c).trade_log)]

\* C32: every place_and_log call whose entry order was accepted and which
\* returns has written one audit file that holds the executions it observed
\* and the order detail it fetched, filled or not; and the files of two
\* different orders are different files, so that each file still holds what
\* was written for its own order.
C32_OneAuditFilePerOrder ==
    thr.active /\ thr.fn = "place_and_log" =>
        /\ \A c \in AuditCallers :
              AuCall(c).at = "done" /\ AuAccepted(c) /\ AuCall(c).out.kind = "return" =>
                 /\ AuLogged(c)
                 /\ AuFileOf(c) = [trades |-> AuCall(c).trades, order |-> AuCall(c).order]
        /\ \A c, d \in AuditCallers :
              c # d /\ AuLogged(c) /\ AuLogged(d) =>
                 AuCall(c).trade_log # AuCall(d).trade_log

----------------------------------------------------------------------------
(* Claims about the web menu *)

TradePageShown ==
    calc.active /\ calc.fn = "web_menu" /\ calc.page # None /\ Val(calc.page).route = "/trade"

\* C33: when trade_config.json holds a demo_balance and not both API
\* credentials, the page a GET of /trade answers with shows that
\* demo_balance as the current balance.
C33_TradePageShowsDemoBalance ==
    /\ TradePageShown
    /\ calc.file # None
    /\ Val(calc.file).demo_balance # Absent
    /\ ~(MenuTruthy(Val(calc.file).api_key) /\ MenuTruthy(Val(calc.file).api_secret))
    => Val(calc.page).balance = Some(Val(calc.file).demo_balance.n)

----------------------------------------------------------------------------
(* Claims about the order of the exchange calls of place_and_log *)

WaitPcs == {"w_start", "w_check", "w_hist1", "w_hist2", "w_detail", "w_sleep"}
PalBeforeDetail == ~pal.detail_fetched /\ pal.trade_log = None
CreateOrderStep == Len(sent') = Len(sent) + 1

PalOrderedStep ==
    /\ Len(sent') \in {Len(sent), Len(sent) + 1}
    \* the entry is the first request, the exit follows an observed execution,
    \* the order-detail fetch and the audit file
    /\ CreateOrderStep =>
          \/ /\ Len(sent) = 0
             /\ sent'[1].reduceOnly = None
             /\ pal.oid = None /\ pal.i = 0 /\ pal.trades = <<>> /\ PalBeforeDetail
          \/ /\ Len(sent) = 1
             /\ sent'[2].reduceOnly = Some(TRUE)
             /\ pal.trades # <<>> /\ pal.detail_fetched /\ pal.trade_log # None
    \* a fast poll follows the entry and fewer than five empty fast polls
    /\ pc = "pal_fast_sleep" =>
          Len(sent) = 1 /\ pal.i < 5 /\ pal.trades = <<>> /\ PalBeforeDetail
    \* wait_for_order_fill runs after five empty fast polls
    /\ pc \in WaitPcs =>
          Len(sent) = 1 /\ pal.i = 5 /\ pal.trades = <<>> /\ PalBeforeDetail
    \* the order detail is fetched once, after the polling, and the audit
    \* file is written in the same step
    /\ pc = "pal_detail" =>
          /\ Len(sent) = 1 /\ PalBeforeDetail
          /\ pal.trades # <<>> \/ pal.i = 5
          /\ pal'.detail_fetched <=> pal'.trade_log # None
    /\ pal.detail_fetched =>
          /\ pc' \notin WaitPcs \cup {"pal_fast_sleep", "pal_detail"}
          /\ pal'.detail_fetched /\ pal'.trade_log = pal.trade_log
    \* a call that returns has fetched the detail and written the file
    /\ pc' = "done" /\ outcome'.kind = "return" =>
          pal'.detail_fetched /\ pal'.trade_log # None

\* C34: in place_and_log the entry create-order comes first; then at most
\* five fast execution polls, ending at the first non-empty one;
\* wait_for_order_fill only after five empty fast polls; then one
\* order-detail fetch, on the filled and the unfilled path alike; then the
\* audit file; then at most one exit create-order, never before an execution
\* of the entry order has been observed.
C34_InteractionsInOrder == [][PalOrderedStep]_vars

\* five empty fast polls, a fill found by wait_for_order_fill, the detail,
\* the file and the exit order
C34_Witness ==
    /\ pal.active /\ pc = "done" /\ outcome.kind = "return"
    /\ pal.i = 5 /\ pal.trades # <<>>
    /\ pal.detail_fetched /\ pal.trade_log # None
    /\ Len(sent) = 2

----------------------------------------------------------------------------
(* Claims about a failed entry order of place_and_log *)

EntryAnswered == pal.active /\ po # NoPo /\ po.ret = "entry" /\ po.answer # None
EntryFailed == EntryAnswered /\ send_request(Val(po.answer)).kind = "raise"

\* C35: when the entry create-order is rejected by the exchange or fails in
\* transport, place_and_log ends with that error; it has polled no
\* execution, called no wait_for_order_fill, fetched no order detail,
\* written no audit file and sent no exit order.
C35_FailedEntryPropagates ==
    EntryFailed =>
        /\ pc = "done"
        /\ outcome = send_request(Val(po.answer))
        /\ pal.oid = None
        /\ pal.i = 0 /\ pal.trades = <<>> /\ w = NoW
        /\ ~pal.detail_fetched
        /\ pal.trade_log = None
        /\ Len(sent) = 1 /\ sent[1].reduceOnly = None

\* a limit entry was rejected by the exchange with a result code
C35_Witness ==
    /\ EntryFailed
    /\ pal.limit_price = Some(1)
    /\ outcome.kind = "raise"
    /\ outcome.exc.type = "ApiException"

----------------------------------------------------------------------------
(* Claims about the termination of the history walk *)

HistEnded == hist.active /\ pc = "done"

\* C36: when every window's cursor chain is finite, list_trade_history and
\* list_delivery_history end for every start_time and end_time; the window
\* end strictly decreases on every outer iteration; and when start_time >=
\* end_time no request is made and the result is the empty list.
C36_WalkTerminates ==
    /\ <>HistEnded
    /\ [][pc = "h_chunk" => hist'.current_end < hist.current_end]_vars
    /\ [](hist.start_time >= hist.end_time =>
            /\ hist.reqs = <<>>
            /\ pc = "done" => outcome = Returned(<<>>))

\* a walk over several windows, one of them served in several pages, ended
\* by returning its records
C36_Witness ==
    /\ HistEnded
    /\ outcome.kind = "return"
    /\ Len(hist.wins) >= 3
    /\ Len(hist.reqs) > Len(hist.wins)
    /\ hist.start_time < hist.end_time

----------------------------------------------------------------------------
(* Claims about execute_trade_from_cfg *)

ExecCall == calc.active /\ calc.fn = "execute_trade_from_cfg"
ExecLacksCredentials ==
    \/ Credential(calc.env.key, calc.cfg.api_key) = ""
    \/ Credential(calc.env.secret, calc.cfg.api_secret) = ""
ExecNothingSent == sent = <<>> /\ pal = NoPal /\ po = NoPo

\* C37: execute_trade_from_cfg sends no create-order request when the API
\* key or the secret is missing, in which case it raises before any
\* exchange call, or when the wallet balance it reads is below 10 USDT,
\* which includes a balance that could not be retrieved and is read as 0; in
\* the low-balance case it reports the abort and returns normally.
C37_NoOrderWithoutCredentialsOrFunds ==
    ExecCall =>
        /\ ExecLacksCredentials =>
              /\ ExecNothingSent
              /\ calc.balance = None /\ calc.retrieved = None
              /\ pc \in {"exec_start", "done"}
              /\ pc = "done" => outcome = Raised([type |-> "RuntimeError"])
        /\ calc.retrieved = Some(FALSE) => calc.balance = Some(0)
        /\ (calc.balance # None /\ Val(calc.balance) < MIN_BALANCE_THRESHOLD) =>
              /\ ExecNothingSent
              /\ pc = "done" /\ outcome = Returned(None)
              /\ calc.report = <<"Balance", "Insufficient balance => abort">>

\* the wallet request failed with both credentials at hand: the balance was
\* read as 0 and the call returned after reporting the abort
C37_Witness ==
    /\ ExecCall /\ ~ExecLacksCredentials
    /\ calc.retrieved = Some(FALSE)
    /\ calc.balance = Some(0)
    /\ pc = "done" /\ outcome = Returned(None)


----------------------------------------------------------------------------
(* Claims about the /webhook handler *)

\* A /webhook request is being served or has been answered
HookCall == calc.active /\ calc.fn = "webhook"

\* The configuration file does not switch automatic trading on
HookDisabled == Val(calc.file).auto_trade # Bool(TRUE)

\* The positions in `sent` of the entry orders (those not reduce-only)
HookEntries == {i \in 1..Len(sent) : sent[i].reduceOnly = None}

HookOrderSent == pc = "done" /\ outcome = Returned([message |-> "order sent"])

\* The step that calls place_and_log hands it the recomputed quantity when
\* budget and price are both non-zero, and the configured quantity otherwise
HookQuantityStep ==
    pc = "hook_place" =>
        pal'.qty = IF calc.risk_usd # 0 /\ calc.price # 0
                   THEN compute_order_qty(Some(calc.risk_usd * 1000), Some(calc.price),
                                          MIN_ORDER_QTY)
                   ELSE Val(calc.file).quantity.n * 1000

HookOrders ==
    HookCall =>
        /\ HookDisabled =>
              /\ sent = <<>> /\ ~calc.called
              /\ pal = NoPal /\ sel = NoSel /\ po = NoPo /\ w = NoW
              /\ \A s \in HookSymbols : tick_cache[s] = None
        /\ Cardinality(HookEntries) <= 1
        /\ \A i \in HookEntries :
              /\ sent[i].orderType = "Market" /\ sent[i].price = None
              /\ sent[i].side = calc.side /\ sent[i].qty = calc.qty
        /\ HookOrderSent => Cardinality(HookEntries) = 1

\* C38: with auto_trade false or absent the /webhook handler sends no order
\* and calls the exchange not at all; with auto_trade true it submits one
\* market entry through place_and_log, never a second, whose quantity is
\* recomputed by compute_order_qty from risk_usd and the mark price when both
\* are non-zero and is the configured quantity otherwise
C38_WebhookGateAndQuantity == []HookOrders /\ [][HookQuantityStep]_vars

\* A request answered 'order sent' whose entry carried a recomputed quantity
C38_Witness ==
    /\ HookCall /\ HookOrderSent /\ calc.risk_usd # 0
    /\ \E i \in HookEntries : sent[i].qty = 500


----------------------------------------------------------------------------
(* Claims about cancel_all *)

\* The positions of non-zero size among the first k that the exchange listed
CxOpen(k) == SelectSeq(SubSeq(cx.positions, 1, k), LAMBDA pos : pos.size # 0)

\* The close order that belongs to position `pos`
CxClosing(order, pos) ==
    /\ order.symbol = pos.symbol
    /\ order.side = (IF pos.side = "Buy" THEN "Sell" ELSE "Buy")
    /\ order.qty = (IF pos.size < 0 THEN 0 - pos.size ELSE pos.size)
    /\ order.orderType = "Market" /\ order.price = None
    /\ order.reduceOnly = Some(TRUE)

CxReturned == pc = "done" /\ outcome.kind = "return"

\* C39: cancel_all issues the cancel-all-orders request before anything
\* else: positions are read and orders sent only after it has ended without
\* an exception, which includes the exchange's answer that there were no
\* active orders. The orders sent are, in the order of the listing, one
\* reduce-only market order per position of non-zero size, on the opposite
\* side with quantity |size|; a position of size zero gets none, and a call
\* that returns has sent the order of every non-zero position.
C39_CancelThenCloseEachPosition ==
    cx.active =>
        /\ (sent # <<>> \/ cx.positions # <<>>) =>
              cx.answer # None /\ cx.result = Some(Returned(None))
        /\ Len(sent) <= Len(CxOpen(Len(cx.positions)))
        /\ \A j \in 1..Len(sent) : CxClosing(sent[j], CxOpen(Len(cx.positions))[j])
        /\ CxReturned => Len(sent) = Len(CxOpen(Len(cx.positions)))
        /\ (CxReturned /\ CancelRejectedWith(NoActiveOrders)) =>
              Len(sent) = Len(CxOpen(Len(cx.positions)))

\* No active orders to cancel, a position of size zero and a short position:
\* the call returned after one Buy order of quantity 1
C39_Witness ==
    /\ cx.active /\ CxReturned
    /\ CancelRejectedWith(NoActiveOrders)
    /\ Len(cx.positions) = 2
    /\ cx.positions[1].size = 0
    /\ cx.positions[2].size = 0 - 1 /\ cx.positions[2].side = "Sell"
    /\ Len(sent) = 1 /\ sent[1].side = "Buy" /\ sent[1].qty = 1


----------------------------------------------------------------------------
(* Claims about get_trade_history *)

\* Every record of `trades` is an execution of order `order_id`
AllOfOrder(trades, order_id) == \A i \in 1..Len(trades) : trades[i].orderId = order_id

HistoryCall == calc.active /\ calc.fn = "get_trade_history"

\* The steps that poll: get_trade_history on its own, the fast loop of
\* place_and_log and the whole of wait_for_order_fill
PollingPcs == WaitPcs \cup {"gth_call", "pal_fast_sleep"}

PolledRecords ==
    /\ (HistoryCall /\ outcome.kind = "return") => AllOfOrder(outcome.value, calc.order_id)
    /\ (w.active /\ w.hit # None) => AllOfOrder(Val(w.hit).trades, w.order_id)
    /\ pal.active => AllOfOrder(pal.trades, pal.oid)
    /\ (pal.active /\ pc = "done" /\ outcome.kind = "return") =>
          AllOfOrder(outcome.value.trades, pal.oid)

\* The entry price place_and_log settles is the limit price, the price of
\* an execution of its own order, or a price of the order's detail
EntryPriceStep ==
    pc = "pal_infer" =>
        pal'.entry_price \in
            {pal.limit_price}
            \cup {pal.trades[i].execPrice :
                    i \in {j \in 1..Len(pal.trades) : pal.trades[j].orderId = pal.oid}}
            \cup (IF pal.order = None THEN {}
                  ELSE {Val(pal.order).avgPrice, Val(pal.order).price})

\* Polling creates no order
ReadOnlyStep == pc \in PollingPcs => (sent' = sent /\ uuid_n' = uuid_n /\ po' = po /\ cx' = cx)

\* C40: every record get_trade_history returns, and so every record that
\* wait_for_order_fill and place_and_log return, is an execution of the
\* polled order; the entry price is never taken from an execution of another
\* order, and the polling steps send no order request
C40_OnlyRecordsOfPolledOrder ==
    []PolledRecords /\ [][EntryPriceStep]_vars /\ [][ReadOnlyStep]_vars

\* The exchange listed an execution of another order before one of the
\* polled order, and the call returned the second alone
C40_Witness ==
    /\ HistoryCall /\ pc = "done" /\ outcome.kind = "return"
    /\ calc.order_id = NewOrderId
    /\ Val(calc.answer).http = "ok"
    /\ Len(Val(calc.answer).result) = 2
    /\ Val(calc.answer).result[1].orderId = "O2"
    /\ Len(outcome.value) = 1

====
